---- MODULE Spec2Model ----
(***************************************************************************)
(* Model of the benchmark package: Benchmark.run (benchmark/core.py),      *)
(* BenchmarkRunner (benchmark/runner.py), benchmark/bench.py,              *)
(* benchmark/utils.py and the command line of benchmark/cli.py.            *)
(*                                                                         *)
(* Benchmark.run is modelled statement group by statement group, with one  *)
(* action per group and the position kept in pc.  The callables handed to  *)
(* a Benchmark (setup, func, teardown) and the process facilities it calls *)
(* (time.perf_counter, tracemalloc, psutil) are the environment: a call    *)
(* either returns, with a value drawn from a small set, or raises.         *)
(*                                                                         *)
(* Two specifications share the actions of Benchmark.run:                  *)
(*   Spec        a caller runs one Benchmark, again and again;             *)
(*   SpecRunner  a BenchmarkRunner receives add_benchmark, run_all, clear. *)
(* Two more cover the functions that only read what they are given:        *)
(*   SpecReport  get_slowest, get_memory_intensive and generate_report of  *)
(*               a runner holding any list of results;                     *)
(*   SpecBench   measure_products and analyze_results (benchmark/bench.py).*)
(* Three more cover utils.py and cli.py:                                   *)
(*   SpecFormat  format_duration and format_memory on values around the    *)
(*               limits of their units;                                    *)
(*   SpecExport  save_to_csv and save_to_json, and json.load of the file;  *)
(*   SpecCli     one call of main: parsing, validation, run_benchmark_cli  *)
(*               with Ctrl-C and failing file operations, and the exit.    *)
(***************************************************************************)
EXTENDS Integers, Sequences, FiniteSets, TLC

\* ---------------------------------------------------------------- bounds
MaxIterations == 2   \* largest iteration count a Benchmark is built with
MaxElapsed == 1      \* largest perf_counter difference of one iteration
MaxPeak == 1         \* largest peak of traced memory
MaxCpu == 1          \* largest cpu_percent sample
MaxBenchmarks == 2   \* most benchmarks registered with a runner
MaxResults == 2      \* most results a runner is given for its reports
MaxProducts == 2     \* longest product list given to measure_products

\* ---------------------------------------------------------------- values
\* Optional[T]: None is the empty tuple, a present value v is <<v>>.
None == <<>>

Some(v) == <<v>>

Names == {"a", "b"}

Abs(x) == IF x < 0 THEN -x ELSE x

RECURSIVE GCD(_, _)
GCD(a, b) == IF b = 0 THEN a ELSE GCD(b, a % b)

\* Python's true division total_time / iterations for a non-zero divisor,
\* kept exact: the quotient as a fraction <<numerator, denominator>> in
\* lowest terms with a positive denominator (so 0 / -1 is <<0, 1>>).
Div(a, b) ==
    LET s == IF b < 0 THEN -1 ELSE 1
        n == a * s
        d == b * s
        g == GCD(d, Abs(n))
    IN  <<n \div g, d \div g>>

RECURSIVE SumSeq(_)
SumSeq(s) == IF s = <<>> THEN 0 ELSE Head(s) + SumSeq(Tail(s))

\* Benchmark.__init__: the fields are stored as given, nothing is validated.
\* setup and teardown are modelled by their presence; func is always there.
NewBenchmark(name, setup, teardown, iterations, measure_memory, measure_cpu) ==
    [name |-> name, setup |-> setup, teardown |-> teardown,
     iterations |-> iterations, measure_memory |-> measure_memory,
     measure_cpu |-> measure_cpu]

\* The benchmarks a caller may construct: any flags, any iteration count
\* from -1 (nothing rejects a non-positive count) to MaxIterations.
Benchmarks ==
    {NewBenchmark(n, s, t, it, mm, mc) :
        n \in Names, s \in BOOLEAN, t \in BOOLEAN,
        it \in -1..MaxIterations, mm \in BOOLEAN, mc \in BOOLEAN}

\* BenchmarkResult(name, execution_time, memory_usage, cpu_usage, iterations)
BenchmarkResult(name, execution_time, memory_usage, cpu_usage, iterations) ==
    [name |-> name, execution_time |-> execution_time,
     memory_usage |-> memory_usage, cpu_usage |-> cpu_usage,
     iterations |-> iterations]

VARIABLES
    self,          \* the Benchmark being run (None before the first run)
    pc,            \* position in Benchmark.run
    k,             \* iterations of the for loop already started
    total_time,    \* local total_time
    avg_time,      \* local avg_time (None while unbound)
    memory_usage,  \* local memory_usage
    cpu_usage,     \* local cpu_usage
    cpu_start,     \* local cpu_start (None while unbound)
    exc,           \* the exception in flight or propagated, named by the
                   \* call that raised it ("none" if there is none)
    context,       \* exc.__context__: the exception exc replaced, if any
    result,        \* the BenchmarkResult run returned (None if it has not)
    tracing,       \* tracemalloc: is tracing active (process-wide)
    peak,          \* tracemalloc: peak traced size of the tracing session
                   \* (the present one, or the last one when not tracing)
    calls,         \* history: the calls run has made, in order
    samples,       \* history: end_time - start_time of every iteration
    cpu_samples,   \* history: the values process.cpu_percent() returned
    benchmarks,    \* BenchmarkRunner.benchmarks
    results,       \* BenchmarkRunner.results (the list it refers to now)
    returned,      \* the list object run_all returned last, if no longer results
    aliased,       \* is the list run_all returned last still runner.results
    rpc,           \* position in BenchmarkRunner.run_all
    i,             \* run_all: index of the benchmark being run
    started,       \* history: indices whose run was started by this run_all
    outcome,       \* history: how the most recent call of run_all ended
    last,          \* history: the runner method called last
    prev,          \* history: the previous call of run on self, if it returned
    method,        \* the reporting method of the runner called last
    arg,           \* its argument: n, or sort_by
    view,          \* what it returned: a list of results, or the report
    order,         \* history: sorted_results, as indices into runner.results
    before,        \* history: runner.results as it was when it was called
    products,      \* measure_products: the products argument
    mp_iterations, \* measure_products: the iterations argument
    mpc,           \* position in measure_products
    product,       \* measure_products: index of the product being measured
    times,         \* measure_products: local times
    measured,      \* measure_products: local results, a dict
    work_calls,    \* history: timed product_work calls, by product index
    merr,          \* the exception measure_products raised ("none" if none)
    given,         \* the mapping analyze_results was last called with
    analysis,      \* what analyze_results returned
    aerr,          \* the exception analyze_results raised ("none" if none)
    formatter,     \* the function of utils.py called last
    unformatted,   \* its argument
    formatted,     \* the string it returned
    argv,          \* the command line that main parses
    cpc,           \* where main stands
    cerr,          \* the exception that run_benchmark_cli raised, if any
    exit_code,     \* the status that sys.exit was given, if it was called
    stderr,        \* the messages written to sys.stderr
    stdout,        \* the messages of main itself written to sys.stdout
    exported,      \* the arguments of the last call of save_to_json/_csv
    files,         \* the output files, by extension
    loaded         \* what json.load has read back from the JSON file

runVars == <<self, pc, k, total_time, avg_time, memory_usage, cpu_usage,
             cpu_start, exc, context, result, tracing, peak, calls, samples,
             cpu_samples, prev>>

runnerVars ==
    <<benchmarks, results, returned, aliased, rpc, i, started, outcome, last>>

reportVars == <<method, arg, view, order, before>>

benchVars == <<products, mp_iterations, mpc, product, times, measured, work_calls, merr,
               given, analysis, aerr>>

formatVars == <<formatter, unformatted, formatted>>

cliVars ==
    <<argv, cpc, cerr, exit_code, stderr, stdout, exported, files, loaded>>

vars == <<runVars, runnerVars, reportVars, benchVars, formatVars, cliVars>>

\* ------------------------------------------------------- Benchmark.run
\* The locals of a fresh call.
EnterRun(b) ==
    /\ self' = b
    /\ pc' = "setup"
    /\ k' = 0
    /\ total_time' = 0
    /\ avg_time' = None
    /\ memory_usage' = None
    /\ cpu_usage' = None
    /\ cpu_start' = None
    /\ exc' = "none"
    /\ context' = "none"
    /\ result' = None
    /\ calls' = <<>>
    /\ samples' = <<>>
    /\ cpu_samples' = <<>>
    /\ UNCHANGED <<tracing, peak, reportVars, benchVars, formatVars, cliVars>>

\* run is over and its frame is gone: the locals no longer exist.
LeaveRun ==
    /\ pc' = "idle"
    /\ k' = 0
    /\ total_time' = 0
    /\ avg_time' = None
    /\ memory_usage' = None
    /\ cpu_usage' = None
    /\ cpu_start' = None
    /\ exc' = "none"
    /\ context' = "none"
    /\ result' = None
    /\ calls' = <<>>
    /\ samples' = <<>>
    /\ cpu_samples' = <<>>
    /\ self' = None
    /\ prev' = None
    /\ UNCHANGED <<tracing, peak, reportVars, benchVars, formatVars, cliVars>>

\* tracemalloc.start(): starts tracing from nothing; a no-op when tracing is
\* already active (the traces and the peak are kept).
TracemallocStart ==
    IF tracing THEN UNCHANGED <<tracing, peak>>
    ELSE tracing' = TRUE /\ peak' = 0

\* lines 70-76 moved into the try statement: a setup that raises goes on
\* to the finally clause, which calls teardown.
RunSetupInsideTry ==
    /\ pc = "setup"
    /\ \/ /\ self.setup
          /\ calls' = Append(calls, "setup")
          /\ pc' = "start"
          /\ exc' = exc
       \/ /\ self.setup
          /\ calls' = Append(calls, "setup")
          /\ pc' = "finally"
          /\ exc' = "setup"
       \/ /\ ~self.setup
          /\ pc' = "start"
          /\ UNCHANGED <<calls, exc>>
    /\ UNCHANGED <<self, prev, k, total_time, avg_time, memory_usage, cpu_usage,
                   cpu_start, context, result, tracing, peak, samples,
                   cpu_samples, runnerVars,
                   reportVars, benchVars, formatVars, cliVars>>

\* lines 70-76: the setup phase. A setup that raises ends run at once.
RunSetup ==
    /\ pc = "setup"
    /\ \/ /\ self.setup
          /\ calls' = Append(calls, "setup")
          /\ pc' = "start"
          /\ exc' = exc
       \/ /\ self.setup
          /\ calls' = Append(calls, "setup")
          /\ pc' = "raised"
          /\ exc' = "setup"
       \/ /\ ~self.setup
          /\ pc' = "start"
          /\ UNCHANGED <<calls, exc>>
    /\ UNCHANGED <<self, prev, k, total_time, avg_time, memory_usage, cpu_usage,
                   cpu_start, context, result, tracing, peak, samples,
                   cpu_samples, runnerVars,
                   reportVars, benchVars, formatVars, cliVars>>

\* lines 78-85: start tracing and take the first CPU sample, before the try.
\* process.cpu_percent() returns a sample or raises a psutil error, which
\* leaves run with no handler and no finally clause around it.
RunStartMeasure ==
    /\ pc = "start"
    /\ IF self.measure_memory THEN TracemallocStart
       ELSE UNCHANGED <<tracing, peak>>
    /\ \/ /\ self.measure_cpu
          /\ \E c \in 0..MaxCpu :
                /\ cpu_start' = Some(c)
                /\ cpu_samples' = Append(cpu_samples, c)
          /\ pc' = "loop"
          /\ exc' = exc
       \/ /\ self.measure_cpu
          /\ pc' = "raised"
          /\ exc' = "cpu_percent before try"
          /\ UNCHANGED <<cpu_start, cpu_samples>>
       \/ /\ ~self.measure_cpu
          /\ pc' = "loop"
          /\ UNCHANGED <<cpu_start, cpu_samples, exc>>
    /\ calls' = calls
              \o (IF self.measure_memory THEN <<"tracemalloc.start">> ELSE <<>>)
              \o (IF self.measure_cpu THEN <<"cpu_percent">> ELSE <<>>)
    /\ UNCHANGED <<self, prev, k, total_time, avg_time, memory_usage, cpu_usage,
                   context, result, samples, runnerVars,
                   reportVars, benchVars, formatVars, cliVars>>

\* line 93: total_time += end_time - start_time
AccumulateLast(total, elapsed) == elapsed

Accumulate(total, elapsed) == total + elapsed

\* lines 89-93: one iteration of for _ in range(self.iterations). func
\* either returns after some elapsed time, possibly raising the traced
\* peak, or raises, which leaves the try block for the finally clause.
RunIteration ==
    /\ pc = "loop"
    /\ k < self.iterations
    /\ k' = k + 1
    /\ calls' = Append(calls, "func")
    /\ \/ /\ \E elapsed \in 0..MaxElapsed :
                /\ total_time' = Accumulate(total_time, elapsed)
                /\ samples' = Append(samples, elapsed)
          /\ \E p \in peak..MaxPeak : peak' = IF tracing THEN p ELSE peak
          /\ pc' = "loop"
          /\ exc' = exc
       \/ /\ exc' = "func"
          /\ pc' = "finally"
          /\ UNCHANGED <<total_time, samples, peak>>
    /\ UNCHANGED <<self, prev, avg_time, memory_usage, cpu_usage, cpu_start,
                   context, result, tracing, cpu_samples, runnerVars,
                   reportVars, benchVars, formatVars, cliVars>>

\* line 96: avg_time = total_time / self.iterations
Mean(total, iterations) == Div(total, iterations)

\* line 96, reached when range(self.iterations) is exhausted (at once for a
\* count <= 0). Dividing by 0 raises ZeroDivisionError inside the try.
RunAverage ==
    /\ pc = "loop"
    /\ ~(k < self.iterations)
    /\ \/ /\ self.iterations # 0
          /\ avg_time' = Mean(total_time, self.iterations)
          /\ pc' = "memory"
          /\ exc' = exc
       \/ /\ self.iterations = 0
          /\ avg_time' = avg_time
          /\ pc' = "finally"
          /\ exc' = "ZeroDivisionError"
    /\ UNCHANGED <<self, prev, k, total_time, memory_usage, cpu_usage, cpu_start,
                   context, result, tracing, peak, calls, samples,
                   cpu_samples, runnerVars,
                   reportVars, benchVars, formatVars, cliVars>>

\* tracemalloc.get_traced_memory()[1] when tracing is as given: the peak
\* of the session, 0 when not tracing.
TracedPeak(active) == IF active THEN peak ELSE 0

\* lines 100-102, wrongly ordered: tracing is stopped before the peak is read.
PeakThenStopSwapped ==
    /\ tracing' = FALSE
    /\ memory_usage' = Some(TracedPeak(tracing'))
    /\ calls' = calls \o <<"tracemalloc.stop", "get_traced_memory">>

\* lines 100-102: read the peak, then stop tracing.
PeakThenStop ==
    /\ memory_usage' = Some(TracedPeak(tracing))
    /\ tracing' = FALSE
    /\ calls' = calls \o <<"get_traced_memory", "tracemalloc.stop">>

\* lines 98-102: the memory capture, if tracking.
RunCaptureMemory ==
    /\ pc = "memory"
    /\ pc' = "cpu"
    /\ \/ /\ self.measure_memory
          /\ PeakThenStop
       \/ /\ ~self.measure_memory
          /\ UNCHANGED <<memory_usage, tracing, calls>>
    /\ UNCHANGED <<self, prev, k, total_time, avg_time, cpu_usage, cpu_start,
                   exc, context, result, peak, samples, cpu_samples,
                   runnerVars,
                   reportVars, benchVars, formatVars, cliVars>>

\* line 106: cpu_usage = process.cpu_percent() - cpu_start
CpuDeltaClamped(sample, start) == IF sample < start THEN 0 ELSE sample - start

CpuDelta(sample, start) == sample - start

\* lines 105-106: the second CPU sample; it may raise like the first.
RunCaptureCpu ==
    /\ pc = "cpu"
    /\ \/ /\ self.measure_cpu
          /\ \E c \in 0..MaxCpu :
                /\ cpu_usage' = Some(CpuDelta(c, cpu_start[1]))
                /\ cpu_samples' = Append(cpu_samples, c)
          /\ calls' = Append(calls, "cpu_percent")
          /\ pc' = "finally"
          /\ exc' = exc
       \/ /\ self.measure_cpu
          /\ calls' = Append(calls, "cpu_percent")
          /\ pc' = "finally"
          /\ exc' = "cpu_percent in try"
          /\ UNCHANGED <<cpu_usage, cpu_samples>>
       \/ /\ ~self.measure_cpu
          /\ pc' = "finally"
          /\ UNCHANGED <<cpu_usage, cpu_samples, calls, exc>>
    /\ UNCHANGED <<self, prev, k, total_time, avg_time, memory_usage, cpu_start,
                   context, result, tracing, peak, samples, runnerVars,
                   reportVars, benchVars, formatVars, cliVars>>

\* The finally clause as it would leave with a return statement inside it:
\* the exception in flight is dropped.
AfterFinallySwallow == "return"

\* Where the finally clause leaves to once teardown is done (or absent):
\* the return statement, or out of run with the exception in flight.
AfterFinally == IF exc = "none" THEN "return" ELSE "raised"

\* lines 108-111 as they would be without try/finally: the cleanup phase
\* is reached only when the block before it raised nothing.
RunTeardownOnSuccessOnly ==
    /\ pc = "finally"
    /\ \/ /\ self.teardown
          /\ exc = "none"
          /\ calls' = Append(calls, "teardown")
          /\ pc' = AfterFinally
          /\ UNCHANGED <<exc, context>>
       \/ /\ self.teardown
          /\ exc = "none"
          /\ calls' = Append(calls, "teardown")
          /\ pc' = "raised"
          /\ exc' = "teardown"
          /\ context' = exc
       \/ /\ ~self.teardown \/ exc # "none"
          /\ pc' = AfterFinally
          /\ UNCHANGED <<calls, exc, context>>
    /\ UNCHANGED <<self, prev, k, total_time, avg_time, memory_usage, cpu_usage,
                   cpu_start, result, tracing, peak, samples, cpu_samples,
                   runnerVars,
                   reportVars, benchVars, formatVars, cliVars>>

\* lines 108-111: the finally clause. A teardown that raises replaces the
\* exception in flight, if any, by its own, and keeps it as its context.
RunTeardown ==
    /\ pc = "finally"
    /\ \/ /\ self.teardown
          /\ calls' = Append(calls, "teardown")
          /\ pc' = AfterFinally
          /\ UNCHANGED <<exc, context>>
       \/ /\ self.teardown
          /\ calls' = Append(calls, "teardown")
          /\ pc' = "raised"
          /\ exc' = "teardown"
          /\ context' = exc
       \/ /\ ~self.teardown
          /\ pc' = AfterFinally
          /\ UNCHANGED <<calls, exc, context>>
    /\ UNCHANGED <<self, prev, k, total_time, avg_time, memory_usage, cpu_usage,
                   cpu_start, result, tracing, peak, samples, cpu_samples,
                   runnerVars,
                   reportVars, benchVars, formatVars, cliVars>>

\* lines 113-119: return BenchmarkResult(...)
RunReturn ==
    /\ pc = "return"
    /\ result' = Some(BenchmarkResult(self.name, avg_time, memory_usage,
                                      cpu_usage, self.iterations))
    /\ pc' = "returned"
    /\ UNCHANGED <<self, prev, k, total_time, avg_time, memory_usage, cpu_usage,
                   cpu_start, exc, context, tracing, peak, calls, samples,
                   cpu_samples, runnerVars,
                   reportVars, benchVars, formatVars, cliVars>>

RunStep ==
    \/ RunSetup
    \/ RunStartMeasure
    \/ RunIteration
    \/ RunAverage
    \/ RunCaptureMemory
    \/ RunCaptureCpu
    \/ RunTeardown
    \/ RunReturn

\* The calls run made to the three callables of the Benchmark, in order.
HookCalls == SelectSeq(calls, LAMBDA c : c \in {"setup", "func", "teardown"})

\* run called again as it would be if the first call had used up the
\* setup hook: the Benchmark is left without one.
CallRunSetupUsedUp ==
    /\ pc \in {"idle", "returned", "raised"}
    /\ EnterRun(IF pc = "returned" THEN [self EXCEPT !.setup = FALSE]
                ELSE self)
    /\ prev' = IF pc = "returned"
               THEN Some([self |-> self, calls |-> HookCalls,
                          name |-> result[1].name,
                          iterations |-> result[1].iterations])
               ELSE prev
    /\ UNCHANGED runnerVars

\* A caller invokes benchmark.run() on its Benchmark, for the first time or
\* again once the previous call has returned or raised.  Nothing in run
\* assigns to a field of self, so the next call finds the same Benchmark.
\* What a call that returned did is kept for comparison with the next one.
CallRun ==
    /\ pc \in {"idle", "returned", "raised"}
    /\ EnterRun(self)
    /\ prev' = IF pc = "returned"
               THEN Some([self |-> self, calls |-> HookCalls,
                          name |-> result[1].name,
                          iterations |-> result[1].iterations])
               ELSE prev
    /\ UNCHANGED runnerVars

\* ------------------------------------------------------ BenchmarkRunner
\* The list object run_all returned last, if it has returned one: its
\* present contents. While runner.results still refers to that object the
\* two have the same contents; once run_all has rebound runner.results to a
\* fresh list, the returned object keeps the contents it had.
LastReturned == IF aliased THEN Some(results) ELSE returned

\* The benchmarks handed to add_benchmark: one with setup and teardown,
\* one without, under different names; both run func once, unmeasured.
RunnerBenchmarks ==
    {NewBenchmark("a", TRUE, TRUE, 1, FALSE, FALSE),
     NewBenchmark("b", FALSE, FALSE, 1, FALSE, FALSE)}

\* lines 19-25: add_benchmark appends to self.benchmarks.
AddBenchmark ==
    /\ rpc = "idle"
    /\ Len(benchmarks) < MaxBenchmarks
    /\ \E b \in RunnerBenchmarks : benchmarks' = Append(benchmarks, b)
    /\ last' = "add_benchmark"
    /\ UNCHANGED <<results, returned, aliased, rpc, i, started, outcome, runVars,
                   reportVars, benchVars, formatVars, cliVars>>

\* run_all without line 36: the list of an earlier run is kept and the new
\* results are appended to it.
RunAllBeginKeepingResults ==
    /\ rpc = "idle"
    /\ rpc' = "loop"
    /\ i' = 1
    /\ started' = <<>>
    /\ outcome' = "running"
    /\ last' = "run_all"
    /\ pc' = "idle"
    /\ UNCHANGED <<results, returned, aliased>>
    /\ UNCHANGED <<benchmarks, self, prev, k, total_time, avg_time, memory_usage,
                   cpu_usage, cpu_start, exc, context, result, tracing, peak,
                   calls, samples, cpu_samples, reportVars, benchVars, formatVars, cliVars>>

\* line 36: self.results = [] binds runner.results to a fresh list; the list
\* it referred to before is left as it is.
RunAllBegin ==
    /\ rpc = "idle"
    /\ results' = <<>>
    /\ returned' = LastReturned
    /\ aliased' = FALSE
    /\ rpc' = "loop"
    /\ i' = 1
    /\ started' = <<>>
    /\ outcome' = "running"
    /\ last' = "run_all"
    /\ pc' = "idle"
    /\ UNCHANGED <<benchmarks, self, prev, k, total_time, avg_time, memory_usage,
                   cpu_usage, cpu_start, exc, context, result, tracing, peak,
                   calls, samples, cpu_samples, reportVars, benchVars, formatVars, cliVars>>

\* lines 38-42: the loop takes the next benchmark and calls its run.
RunAllCall ==
    /\ rpc = "loop"
    /\ pc = "idle"
    /\ i <= Len(benchmarks)
    /\ EnterRun(benchmarks[i])
    /\ started' = Append(started, i)
    /\ UNCHANGED <<benchmarks, results, returned, aliased, rpc, i, outcome, last,
                   prev>>

\* line 43 with insert(0, result) for append(result).
RunAllPrepend ==
    /\ rpc = "loop"
    /\ pc = "returned"
    /\ results' = <<result[1]>> \o results
    /\ i' = i + 1
    /\ LeaveRun
    /\ UNCHANGED <<benchmarks, returned, aliased, rpc, started, outcome, last>>

\* line 43: self.results.append(result), and on to the next benchmark.
RunAllAppend ==
    /\ rpc = "loop"
    /\ pc = "returned"
    /\ results' = Append(results, result[1])
    /\ i' = i + 1
    /\ LeaveRun
    /\ UNCHANGED <<benchmarks, returned, aliased, rpc, started, outcome, last>>

\* line 42 as it would be inside try/except with continue: the exception of
\* a benchmark is dropped and the loop goes on with the next one.
RunAllSkipFailed ==
    /\ rpc = "loop"
    /\ pc = "raised"
    /\ i' = i + 1
    /\ LeaveRun
    /\ UNCHANGED <<benchmarks, results, returned, aliased, rpc, started,
                   outcome, last>>

\* line 42, when benchmark.run() raises: run_all has no handler, so the
\* exception leaves run_all and the loop is abandoned.
RunAllRaise ==
    /\ rpc = "loop"
    /\ pc = "raised"
    /\ rpc' = "idle"
    /\ outcome' = "raised"
    /\ LeaveRun
    /\ UNCHANGED <<benchmarks, results, returned, aliased, i, started, last>>

\* line 51: return self.results, the very list the runner keeps.
RunAllReturn ==
    /\ rpc = "loop"
    /\ pc = "idle"
    /\ i > Len(benchmarks)
    /\ rpc' = "idle"
    /\ outcome' = "returned"
    /\ aliased' = TRUE
    /\ returned' = None
    /\ UNCHANGED <<benchmarks, results, i, started, last, runVars,
                   reportVars, benchVars, formatVars, cliVars>>

\* lines 125-126 with self.results = [] for self.results.clear(): the
\* runner gets a fresh list and the old one keeps its contents.
ClearByRebinding ==
    /\ rpc = "idle"
    /\ benchmarks' = <<>>
    /\ results' = <<>>
    /\ returned' = LastReturned
    /\ aliased' = FALSE
    /\ last' = "clear"
    /\ UNCHANGED <<rpc, i, started, outcome, runVars,
                   reportVars, benchVars, formatVars, cliVars>>

\* lines 123-126: clear empties both lists in place.
Clear ==
    /\ rpc = "idle"
    /\ benchmarks' = <<>>
    /\ results' = <<>>
    /\ last' = "clear"
    /\ UNCHANGED <<returned, aliased, rpc, i, started, outcome, runVars,
                   reportVars, benchVars, formatVars, cliVars>>

\* ------------------------------------------------- formatting (utils.py)
RECURSIVE Pow10(_)
Pow10(places) == IF places = 0 THEN 1 ELSE 10 * Pow10(places - 1)

\* The digits of x, zero-padded on the left to width characters.
RECURSIVE ZeroPad(_, _)
ZeroPad(x, width) ==
    IF width = 0 THEN ""
    ELSE ZeroPad(x \div 10, width - 1) \o ToString(x % 10)

\* n / d (n >= 0, d > 0) rounded to an integer, halves to the even one.
RoundHalfEven(n, d) ==
    LET q == n \div d
        r == n % d
    IN  IF 2 * r < d THEN q
        ELSE IF 2 * r > d THEN q + 1
        ELSE IF q % 2 = 0 THEN q ELSE q + 1

\* f"{x:.<places>f}" of x = n / d (d > 0, places >= 1).  The quotient is
\* exact here, where Python rounds the nearest binary float, so the two can
\* differ only on a value that sits on a rounding boundary.  The whole part
\* is split off before the digits are scaled, which keeps the products
\* small; digits that round up to 10^places carry into the whole part.
FixedPoint(n, d, places) ==
    LET whole == Abs(n) \div d
        rest == Div(Abs(n) % d, d)
        digits == RoundHalfEven(rest[1] * Pow10(places), rest[2])
    IN  (IF n < 0 THEN "-" ELSE "")
        \o ToString(whole + digits \div Pow10(places)) \o "."
        \o ZeroPad(digits % Pow10(places), places)

\* seconds * factor, the common factor taken out before multiplying.
Scaled(seconds, factor) ==
    LET g == GCD(factor, seconds[2])
    IN  <<seconds[1] * (factor \div g), seconds[2] \div g>>

\* n / d < 1 / whole and n / d < whole for d > 0 and whole > 0, without
\* the products n * whole and whole * d.
BelowInverse(n, d, whole) == n <= (d - 1) \div whole

Below(n, d, whole) == n \div whole < d

\* n / d <= 1 / whole and n / d <= whole.
AtMostInverse(n, d, whole) == n <= d \div whole

AtMost(n, d, whole) == Below(n, d, whole) \/ (n \div whole = d /\ n % whole = 0)

\* format_duration with <= where lines 15-22 have <.
format_duration_inclusive(seconds) ==
    LET n == seconds[1]
        d == seconds[2]
        ns == Scaled(seconds, 1000000000)
        us == Scaled(seconds, 1000000)
        ms == Scaled(seconds, 1000)
    IN  IF AtMostInverse(n, d, 1000000)
        THEN FixedPoint(ns[1], ns[2], 2) \o " ns"
        ELSE IF AtMostInverse(n, d, 1000)
        THEN FixedPoint(us[1], us[2], 2) \o " us"
        ELSE IF AtMost(n, d, 1) THEN FixedPoint(ms[1], ms[2], 2) \o " ms"
        ELSE IF AtMost(n, d, 60) THEN FixedPoint(n, d, 2) \o " s"
        ELSE LET minutes == n \div (60 * d)
             IN  ToString(minutes) \o "m "
                 \o FixedPoint(n - minutes * 60 * d, d, 2) \o "s"

\* format_duration, utils.py lines 6-26; seconds is a fraction <<n, d>>.
\* The microsecond unit is written "us" for the source's "μs".
format_duration(seconds) ==
    LET n == seconds[1]
        d == seconds[2]
        ns == Scaled(seconds, 1000000000)
        us == Scaled(seconds, 1000000)
        ms == Scaled(seconds, 1000)
    IN  IF BelowInverse(n, d, 1000000)
        THEN FixedPoint(ns[1], ns[2], 2) \o " ns"
        ELSE IF BelowInverse(n, d, 1000)
        THEN FixedPoint(us[1], us[2], 2) \o " us"
        ELSE IF Below(n, d, 1) THEN FixedPoint(ms[1], ms[2], 2) \o " ms"
        ELSE IF Below(n, d, 60) THEN FixedPoint(n, d, 2) \o " s"
        ELSE LET minutes == n \div (60 * d)
             IN  ToString(minutes) \o "m "
                 \o FixedPoint(n - minutes * 60 * d, d, 2) \o "s"

\* format_memory with the decimal multiples 1000, 1000^2 and 1000^3.
format_memory_decimal(bytes_used) ==
    IF bytes_used = None THEN "N/A"
    ELSE LET b == bytes_used[1]
         IN  IF b < 1000 THEN ToString(b) \o " B"
             ELSE IF b < 1000 * 1000 THEN FixedPoint(b, 1000, 2) \o " KB"
             ELSE IF b < 1000 * 1000 * 1000
                  THEN FixedPoint(b, 1000 * 1000, 2) \o " MB"
             ELSE FixedPoint(b, 1000 * 1000 * 1000, 2) \o " GB"

\* format_memory, utils.py lines 29-48; bytes_used is an Optional[int].
format_memory(bytes_used) ==
    IF bytes_used = None THEN "N/A"
    ELSE LET b == bytes_used[1]
         IN  IF b < 1024 THEN ToString(b) \o " B"
             ELSE IF b < 1024 * 1024 THEN FixedPoint(b, 1024, 2) \o " KB"
             ELSE IF b < 1024 * 1024 * 1024
                  THEN FixedPoint(b, 1024 * 1024, 2) \o " MB"
             ELSE FixedPoint(b, 1024 * 1024 * 1024, 2) \o " GB"

\* The durations that callers format: whole numbers of seconds, of
\* milliseconds, of microseconds and of nanoseconds on both sides of every
\* unit's limits.
DurationCounts ==
    {-1, 0, 1, 2, 5, 59, 60, 61, 119, 120, 150, 250, 999, 1000, 1001,
     3600, 59999, 60000, 60001, 119999, 125750, 999999, 1000000, 1000001}

Durations ==
    {Div(n, d) : n \in DurationCounts, d \in {1, 1000, 1000000, 1000000000}}

\* The byte counts that callers format, None for a peak never measured.
ByteCounts ==
    {None} \cup
    {Some(b) : b \in {0, 1, 512, 999, 1000, 1023, 1024, 1025, 1536, 2048,
                      1000000, 1048575, 1048576, 1048577, 5242880,
                      1000000000, 1073741823, 1073741824, 1073741825,
                      1610612736}}

\* A caller formats a duration, lines 6-26.
FormatDuration ==
    /\ \E seconds \in Durations :
          /\ unformatted' = Some(seconds)
          /\ formatted' = format_duration(seconds)
    /\ formatter' = "format_duration"
    /\ UNCHANGED <<runVars, runnerVars, reportVars, benchVars, cliVars>>

\* A caller formats a byte count, lines 29-48.
FormatMemory ==
    /\ \E bytes_used \in ByteCounts :
          /\ unformatted' = Some(bytes_used)
          /\ formatted' = format_memory(bytes_used)
    /\ formatter' = "format_memory"
    /\ UNCHANGED <<runVars, runnerVars, reportVars, benchVars, cliVars>>

\* ------------------------------------------- reports of BenchmarkRunner
\* Fractions with positive denominators, compared as numbers.
Less(x, y) == x[1] * y[2] < y[1] * x[2]

\* Python's truth value of an Optional number: None and zero are false.
Truthy(opt) == opt # None /\ opt[1] # 0

\* The code-point order of the names, which sorted compares them by.
NameRank(name) == CASE name = "a" -> 1 [] name = "b" -> 2

\* The attributes of a BenchmarkResult that getattr can find here.
Attributes ==
    {"name", "execution_time", "memory_usage", "cpu_usage", "iterations"}

\* What callers pass as sort_by: a name that is no attribute raises
\* AttributeError inside getattr.
SortKeys == Attributes \cup {"invalid_field"}

\* getattr(r, sort_by) or 0 (line 70) as a number that orders the results
\* as Python orders the attribute's values; a falsy value (None, 0, 0.0)
\* becomes 0.  Names are never empty here, so `or 0` leaves them alone.
SortKeyOf(r, sort_by) ==
    CASE sort_by = "name" -> <<NameRank(r.name), 1>>
      [] sort_by = "execution_time" -> r.execution_time
      [] sort_by = "memory_usage" ->
            IF Truthy(r.memory_usage) THEN <<r.memory_usage[1], 1>>
            ELSE <<0, 1>>
      [] sort_by = "cpu_usage" ->
            IF Truthy(r.cpu_usage) THEN <<r.cpu_usage[1], 1>> ELSE <<0, 1>>
      [] sort_by = "iterations" -> <<r.iterations, 1>>

\* sorted(..., reverse=True) done as an ascending sort that is reversed
\* afterwards: equal keys come out in the opposite of their original order.
PrecedesReversedAscending(keys, reverse, x, y) ==
    IF reverse
    THEN Less(keys[y], keys[x]) \/ (keys[x] = keys[y] /\ y < x)
    ELSE Less(keys[x], keys[y]) \/ (keys[x] = keys[y] /\ x < y)

\* sorted is stable, with reverse=True too: element x comes before element
\* y when its key is the better one, or when the keys compare equal and x
\* stood before y in the list that is being sorted.
Precedes(keys, reverse, x, y) ==
    \/ IF reverse THEN Less(keys[y], keys[x]) ELSE Less(keys[x], keys[y])
    \/ ~Less(keys[x], keys[y]) /\ ~Less(keys[y], keys[x]) /\ x < y

\* sorted(list, key=..., reverse=...) as the indices of the list in their
\* new order: the element with j elements before it takes place j + 1.
Sorted(keys, reverse) ==
    LET ahead == [x \in DOMAIN keys |->
                     Cardinality({y \in DOMAIN keys :
                                     Precedes(keys, reverse, y, x)})]
    IN  [place \in DOMAIN keys |->
            CHOOSE x \in DOMAIN keys : ahead[x] = place - 1]

\* The elements of list at the given indices, in that order.
Pick(list, indices) == [j \in DOMAIN indices |-> list[indices[j]]]

\* list[:n]
Slice(list, n) ==
    IF n >= 0 THEN SubSeq(list, 1, IF n < Len(list) THEN n ELSE Len(list))
    ELSE SubSeq(list, 1, IF Len(list) + n > 0 THEN Len(list) + n ELSE 0)

\* What a result holds as <<memory_usage, cpu_usage>>: nothing measured,
\* both measured as 0, or both measured as 1.
Measurements ==
    {<<None, None>>, <<Some(0), Some(0)>>, <<Some(1), Some(1)>>}

\* The results a runner may hold: the tests assign runner.results, so any
\* list is possible.  The iteration count goes with the name, to keep the
\* set small.
ReportResults ==
    {BenchmarkResult(name, <<t, 1>>, m[1], m[2], NameRank(name)) :
        name \in Names, t \in {0, 1}, m \in Measurements}

\* All lists of at most n elements of S.
ListsUpTo(S, n) == UNION {[1..len -> S] : len \in 0..n}

\* The n of get_slowest and get_memory_intensive that callers pass.
SliceArgs == -1..MaxResults

\* get_slowest, runner.py lines 92-104.
GetSlowest ==
    \E n \in SliceArgs :
        /\ method' = "get_slowest"
        /\ arg' = n
        /\ before' = results
        /\ IF results = <<>>
           THEN /\ order' = <<>>
                /\ view' = <<>>
           ELSE \E keys \in {[j \in DOMAIN results |->
                                 SortKeyOf(results[j], "execution_time")]} :
                \E sorted \in {Slice(Sorted(keys, TRUE), n)} :
                    /\ order' = sorted
                    /\ view' = Pick(results, sorted)
        /\ UNCHANGED <<runVars, runnerVars, benchVars, formatVars, cliVars>>

\* The filter of line 118 dropped: every result is kept, also those
\* without a memory measurement.
MemoryResultsUnfiltered(list) == [j \in DOMAIN list |-> j]

\* line 118: [r for r in self.results if r.memory_usage is not None], as
\* the indices of the results that are kept, in their original order.
MemoryResults(list) ==
    SelectSeq([j \in DOMAIN list |-> j],
              LAMBDA j : list[j].memory_usage # None)

\* get_memory_intensive, runner.py lines 106-121.
GetMemoryIntensive ==
    \E n \in SliceArgs :
        /\ method' = "get_memory_intensive"
        /\ arg' = n
        /\ before' = results
        /\ IF results = <<>>
           THEN /\ order' = <<>>
                /\ view' = <<>>
           ELSE \E memory_results \in {MemoryResults(results)} :
                \E keys \in {[j \in DOMAIN memory_results |->
                                 SortKeyOf(results[memory_results[j]],
                                           "memory_usage")]} :
                \E sorted \in {Slice(Pick(memory_results,
                                          Sorted(keys, TRUE)), n)} :
                    /\ order' = sorted
                    /\ view' = Pick(results, sorted)
        /\ UNCHANGED <<runVars, runnerVars, benchVars, formatVars, cliVars>>

\* line 66 with the comparison dropped: every key is sorted descending.
ReverseSortAlways(sort_by) == TRUE

\* line 66: reverse_sort = sort_by != "name"
ReverseSort(sort_by) == sort_by # "name"

\* lines 67-74: sorted_results as indices into self.results.  getattr
\* raises AttributeError for a sort_by that names no attribute, and the
\* except clause then takes self.results as it is.
SortedResults(list, sort_by) ==
    IF sort_by \in Attributes
    THEN Sorted([j \in DOMAIN list |-> SortKeyOf(list[j], sort_by)],
                ReverseSort(sort_by))
    ELSE [j \in DOMAIN list |-> j]

\* f"{result.cpu_usage:.1f}" (line 85) of a whole number of percent.
FormatCpu(percent) == FixedPoint(percent, 1, 1)

\* lines 81-87: the row of one result.  The memory and the CPU cell test
\* the truth value of the field, not its presence.
Row(r) ==
    <<r.name,
      format_duration(r.execution_time),
      IF Truthy(r.memory_usage) THEN format_memory(r.memory_usage) ELSE "N/A",
      IF Truthy(r.cpu_usage) THEN FormatCpu(r.cpu_usage[1]) ELSE "N/A",
      ToString(r.iterations)>>

\* line 63
NoResultsMessage == "No benchmark results available. Run benchmarks first."

\* generate_report, runner.py lines 53-90.  The report is kept as
\* table_data, the rows that tabulate then draws one below the other under
\* the header row.
GenerateReport ==
    \E sort_by \in SortKeys :
        /\ method' = "generate_report"
        /\ arg' = sort_by
        /\ before' = results
        /\ IF results = <<>>
           THEN /\ order' = <<>>
                /\ view' = NoResultsMessage
           ELSE \E sorted_results \in {SortedResults(results, sort_by)} :
                    /\ order' = sorted_results
                    /\ view' = [j \in DOMAIN sorted_results |->
                                   Row(results[sorted_results[j]])]
        /\ UNCHANGED <<runVars, runnerVars, benchVars, formatVars, cliVars>>

\* ------------------------------------------------- benchmark/bench.py
\* A dict is the sequence of its <<key, value>> items in insertion order,
\* no key twice.
Keys(dict) == [j \in DOMAIN dict |-> dict[j][1]]

Values(dict) == [j \in DOMAIN dict |-> dict[j][2]]

\* dict[key] = value done as list.append: a key that is stored again gets
\* a second item.
StoreAlwaysAppend(dict, key, value) == Append(dict, <<key, value>>)

\* dict[key] = value: the value of a key that is there is replaced where
\* it stands, a new key goes to the end.
Store(dict, key, value) ==
    IF \E j \in DOMAIN dict : dict[j][1] = key
    THEN [j \in DOMAIN dict |->
             IF dict[j][1] = key THEN <<key, value>> ELSE dict[j]]
    ELSE Append(dict, <<key, value>>)

\* statistics.mean of a non-empty list of whole ticks, as a fraction.
StatisticsMean(data) == Div(SumSeq(data), Len(data))

\* The iteration counts that callers pass to measure_products; nothing
\* rejects a count below 1.
IterationArgs == -1..MaxIterations

\* measure_products is called, lines 34-52.  What an earlier call of
\* analyze_results left behind is forgotten.
MeasureProductsCall ==
    /\ mpc \in {"idle", "returned", "raised"}
    /\ \E list \in ListsUpTo(Names, MaxProducts) : products' = list
    /\ \E count \in IterationArgs : mp_iterations' = count
    /\ mpc' = "for product"
    /\ product' = 0
    /\ times' = <<>>
    /\ measured' = <<>>
    /\ work_calls' = <<>>
    /\ merr' = "none"
    /\ given' = None
    /\ analysis' = <<>>
    /\ aerr' = "none"
    /\ UNCHANGED <<runVars, runnerVars, reportVars,
                   formatVars, cliVars>>

\* lines 54-55 and 72: the next product gets an empty list of times; after
\* the last one results is returned.
MeasureNextProduct ==
    /\ mpc = "for product"
    /\ IF product < Len(products)
       THEN /\ product' = product + 1
            /\ times' = <<>>
            /\ mpc' = "for range"
       ELSE /\ mpc' = "returned"
            /\ UNCHANGED <<product, times>>
    /\ UNCHANGED <<products, mp_iterations, measured, work_calls, merr,
                   given, analysis, aerr, runVars, runnerVars, reportVars,
                   formatVars, cliVars>>

\* lines 64-66 and measure_work, lines 12-31: one more timed call of
\* product_work, which raises nothing; the difference of two readings of
\* perf_counter is not negative.
MeasureWork ==
    /\ mpc = "for range"
    /\ Len(times) < mp_iterations
    /\ \E elapsed \in 0..MaxElapsed : times' = Append(times, elapsed)
    /\ work_calls' = Append(work_calls, product)
    /\ UNCHANGED <<products, mp_iterations, mpc, product, measured, merr,
                   given, analysis, aerr, runVars, runnerVars, reportVars,
                   formatVars, cliVars>>

\* lines 69-70 with the legacy policy of bench_old.py's callers: no
\* samples give the average 0.
MeasureAverageZeroForEmpty ==
    /\ mpc = "for range"
    /\ Len(times) >= mp_iterations
    /\ measured' = Store(measured, products[product],
                         IF times = <<>> THEN <<0, 1>>
                         ELSE StatisticsMean(times))
    /\ mpc' = "for product"
    /\ UNCHANGED <<merr>>
    /\ UNCHANGED <<products, mp_iterations, product, times, work_calls,
                   given, analysis, aerr, runVars, runnerVars, reportVars,
                   formatVars, cliVars>>

\* lines 69-70, after range(iterations) is used up: mean raises
\* StatisticsError for an empty list, otherwise the average is stored
\* under the product's name.
MeasureAverage ==
    /\ mpc = "for range"
    /\ Len(times) >= mp_iterations
    /\ IF times = <<>>
       THEN /\ merr' = "StatisticsError"
            /\ mpc' = "raised"
            /\ UNCHANGED measured
       ELSE /\ measured' = Store(measured, products[product],
                                 StatisticsMean(times))
            /\ mpc' = "for product"
            /\ UNCHANGED merr
    /\ UNCHANGED <<products, mp_iterations, product, times, work_calls,
                   given, analysis, aerr, runVars, runnerVars, reportVars,
                   formatVars, cliVars>>

\* x + y and x / y of fractions, in lowest terms again.
FracAdd(x, y) == Div(x[1] * y[2] + y[1] * x[2], x[2] * y[2])

FracDiv(x, y) == Div(x[1] * y[2], x[2] * y[1])

RECURSIVE FracSum(_)
FracSum(s) == IF s = <<>> THEN <<0, 1>> ELSE FracAdd(Head(s), FracSum(Tail(s)))

\* min and max of a non-empty list of fractions.
MinOf(s) == CHOOSE x \in {s[j] : j \in DOMAIN s} :
                \A j \in DOMAIN s : ~Less(s[j], x)

MaxOf(s) == CHOOSE x \in {s[j] : j \in DOMAIN s} :
                \A j \in DOMAIN s : ~Less(x, s[j])

\* The index of the last element of s that equals x.
IndexOfLast(s, x) ==
    CHOOSE j \in DOMAIN s :
        s[j] = x /\ \A m \in DOMAIN s : s[m] = x => m <= j

\* list.index: the index of the first element of s that equals x.
IndexOf(s, x) ==
    CHOOSE j \in DOMAIN s :
        s[j] = x /\ \A m \in DOMAIN s : s[m] = x => j <= m

\* float("inf"), kept apart from every fraction by its denominator 0.
Inf == <<1, 0>>

\* lines 103-105 with the quotient upside down.
PerformanceRatioInverted(min_time, max_time) ==
    IF Less(<<0, 1>>, min_time) THEN FracDiv(min_time, max_time) ELSE Inf

\* lines 103-105: max_time / min_time if min_time > 0 else float("inf")
PerformanceRatio(min_time, max_time) ==
    IF Less(<<0, 1>>, min_time) THEN FracDiv(max_time, min_time) ELSE Inf

\* lines 87-107: the analysis of a non-empty dict.
Analysis(dict) ==
    LET values == Values(dict)
        keys == Keys(dict)
        min_time == MinOf(values)
        max_time == MaxOf(values)
    IN  [fastest_product |-> keys[IndexOf(values, min_time)],
         fastest_time |-> min_time,
         slowest_product |-> keys[IndexOf(values, max_time)],
         slowest_time |-> max_time,
         average_time |-> Div(FracSum(values)[1],
                              FracSum(values)[2] * Len(values)),
         performance_ratio |-> PerformanceRatio(min_time, max_time),
         total_products |-> Len(dict)]

\* analyze_results without lines 84-85: min of an empty list raises
\* ValueError.
analyze_results_unguarded(dict) ==
    IF dict = <<>>
    THEN [ret |-> <<>>, raised |-> "ValueError"]
    ELSE [ret |-> Analysis(dict), raised |-> "none"]

\* analyze_results, lines 75-109: what it returns (the empty dict is the
\* empty function) and what it raises.
analyze_results(dict) ==
    IF dict = <<>>
    THEN [ret |-> <<>>, raised |-> "none"]
    ELSE [ret |-> Analysis(dict), raised |-> "none"]

\* The times that callers put into a dict for analyze_results.
TimeValues == {<<-1, 1>>, <<0, 1>>, <<1, 2>>, <<1, 1>>, <<2, 1>>}

\* The dicts of at most two products that callers pass to analyze_results.
Mappings ==
    {<<>>}
    \cup {<<<<name, t>>>> : name \in Names, t \in TimeValues}
    \cup {dict \in {<<<<n1, t1>>, <<n2, t2>>>> :
                         n1 \in Names, n2 \in Names,
                         t1 \in TimeValues, t2 \in TimeValues} :
             dict[1][1] # dict[2][1]}

\* analyze_results is called: with a dict of the caller's own, or after
\* measure_products with the dict that it has returned.
AnalyzeResults ==
    /\ mpc \in {"idle", "returned"}
    /\ \E dict \in (IF mpc = "returned" THEN {measured} ELSE Mappings) :
           /\ given' = Some(dict)
           /\ analysis' = analyze_results(dict).ret
           /\ aerr' = analyze_results(dict).raised
    /\ UNCHANGED <<products, mp_iterations, mpc, product, times, measured,
                   work_calls, merr, runVars, runnerVars, reportVars,
                   formatVars, cliVars>>

\* ------------------------------------------------- the exports of cli.py
\* Python values with their types, which json.dump tells apart.
PyStr(s) == [type |-> "str", value |-> s]

PyInt(n) == [type |-> "int", value |-> n]

PyFloat(x) == [type |-> "float", value |-> x]

PyDict(items) == [type |-> "dict", value |-> items]

\* A Dict[str, float] of bench.py as such a value.
ResultsDict(dict) ==
    PyDict([j \in DOMAIN dict |-> <<dict[j][1], PyFloat(dict[j][2])>>])

\* What analyze_results returned, bench.py lines 84-109, as such a value,
\* the keys in the order of lines 97-105.
AnalysisDict(a) ==
    IF DOMAIN a = {} THEN PyDict(<<>>)
    ELSE PyDict(<<<<"fastest_product", PyStr(a.fastest_product)>>,
                  <<"fastest_time", PyFloat(a.fastest_time)>>,
                  <<"slowest_product", PyStr(a.slowest_product)>>,
                  <<"slowest_time", PyFloat(a.slowest_time)>>,
                  <<"average_time", PyFloat(a.average_time)>>,
                  <<"performance_ratio", PyFloat(a.performance_ratio)>>,
                  <<"total_products", PyInt(a.total_products)>>>>)

\* full_data, lines 168-177; the timestamp is a string that is not looked
\* into.
FullData(list, count, dict, a) ==
    PyDict(<<<<"metadata",
               PyDict(<<<<"timestamp", PyStr("timestamp")>>,
                        <<"products_count", PyInt(Len(list))>>,
                        <<"iterations_per_product", PyInt(count)>>,
                        <<"total_measurements", PyInt(Len(list) * count)>>>>)>>,
             <<"results", ResultsDict(dict)>>,
             <<"analysis", AnalysisDict(a)>>>>)

\* json.dump(data, f, indent=2, default=str), line 26, as the tokens it
\* writes.  A dict becomes an object with its members in order, a str a
\* string, an int and a finite float a number; float("inf") is written by
\* the encoder itself as the bare word Infinity (allow_nan is left True),
\* so default is never asked about it.  default=str is for values of other
\* types, of which the data has none.
RECURSIVE JsonDump(_)
JsonDump(v) ==
    CASE v.type = "dict" ->
             [token |-> "object",
              text |-> [j \in DOMAIN v.value |->
                           <<v.value[j][1], JsonDump(v.value[j][2])>>]]
      [] v.type = "str" -> [token |-> "string", text |-> v.value]
      [] v.type = "int" -> [token |-> "integer", text |-> v.value]
      [] v.type = "float" ->
             IF v.value = Inf THEN [token |-> "Infinity", text |-> "Infinity"]
             ELSE [token |-> "real", text |-> v.value]

\* json.load of such a file, as the test does it (test_cli.py line 63):
\* Python's parser accepts the word Infinity and gives float("inf").
RECURSIVE JsonLoad(_)
JsonLoad(t) ==
    CASE t.token = "object" ->
             PyDict([j \in DOMAIN t.text |->
                        <<t.text[j][1], JsonLoad(t.text[j][2])>>])
      [] t.token = "string" -> PyStr(t.text)
      [] t.token = "integer" -> PyInt(t.text)
      [] t.token = "real" -> PyFloat(t.text)
      [] t.token = "Infinity" -> PyFloat(Inf)

\* The truth value of an Optional[Dict]: None and {} are false.
TruthyDict(opt) == opt # None /\ DOMAIN opt[1] # {}

\* The product rows of save_to_csv in the order of the mapping, ranked in
\* that order.
ProductRowsUnsorted(dict) ==
    [place \in DOMAIN dict |-> <<dict[place][1], dict[place][2], place>>]

\* lines 49-53: the items sorted by their time, each with its rank from 1.
ProductRows(dict) ==
    LET sorted_results == Sorted(Values(dict), FALSE)
    IN  [place \in DOMAIN dict |->
            <<dict[sorted_results[place]][1],
              dict[sorted_results[place]][2], place>>]

\* lines 56-76: the rows after the product rows.  Every key of an analysis
\* that analyze_results made is there, so get never gives its "N/A".
AnalysisRows(opt) ==
    IF TruthyDict(opt)
    THEN <<<<>>,
           <<"Analysis", "Value">>,
           <<"Fastest_Product", opt[1].fastest_product>>,
           <<"Fastest_Time", opt[1].fastest_time>>,
           <<"Slowest_Product", opt[1].slowest_product>>,
           <<"Slowest_Time", opt[1].slowest_time>>,
           <<"Performance_Ratio", opt[1].performance_ratio>>,
           <<"Average_Time", opt[1].average_time>>>>
    ELSE <<>>

\* The header, line 46.
CsvHeader == <<"Product", "Execution_Time_Seconds", "Rank">>

\* save_to_csv, lines 30-78: the lists given to writer.writerow, one after
\* the other.
CsvRows(dict, opt) == <<CsvHeader>> \o ProductRows(dict) \o AnalysisRows(opt)

\* The analysis arguments of save_to_csv for some results: left out, the
\* empty dict, or what analyze_results makes of the results.
AnalysisArgs(dict) ==
    {None, Some(<<>>), Some(analyze_results(dict).ret)}

\* A caller saves a dict of its own as CSV, lines 30-78.
SaveToCsv ==
    /\ cpc = "idle"
    /\ files = [json |-> None, csv |-> None]
    /\ \E dict \in Mappings :
           \E opt \in AnalysisArgs(dict) :
               /\ exported' = [exported EXCEPT
                                   !.csv = Some([results |-> dict,
                                                 analysis |-> opt])]
               /\ files' = [files EXCEPT !.csv = Some(CsvRows(dict, opt))]
    /\ UNCHANGED <<argv, cpc, cerr, exit_code, stderr, stdout, loaded>>
    /\ UNCHANGED <<runVars, runnerVars, reportVars, benchVars, formatVars>>

\* A caller saves results with their metadata and analysis as JSON, lines
\* 18-27.
SaveToJson ==
    /\ cpc = "idle"
    /\ files = [json |-> None, csv |-> None]
    /\ \E dict \in Mappings :
           \E count \in 1..MaxIterations :
               \E data \in {FullData(Keys(dict), count, dict,
                                     analyze_results(dict).ret)} :
                   /\ exported' = [exported EXCEPT !.json = Some(data)]
                   /\ files' = [files EXCEPT !.json = Some(JsonDump(data))]
    /\ UNCHANGED <<argv, cpc, cerr, exit_code, stderr, stdout, loaded>>
    /\ UNCHANGED <<runVars, runnerVars, reportVars, benchVars, formatVars>>

\* The JSON file is read back with json.load.
LoadJson ==
    /\ files.json # None
    /\ loaded = None
    /\ loaded' = Some(JsonLoad(files.json[1]))
    /\ UNCHANGED <<argv, cpc, cerr, exit_code, stderr, stdout, exported,
                   files>>
    /\ UNCHANGED <<runVars, runnerVars, reportVars, benchVars, formatVars>>

\* ------------------------------------------------------ main of cli.py
\* The command lines that main is given: -p with its names (with none for
\* a bare -p), -i with a count, and the flags --json and --csv.  The
\* defaults of -p and -i (4 products, 100 iterations) are never taken.
Argvs ==
    [products : ListsUpTo(Names, MaxProducts),
     iterations : IterationArgs,
     json : BOOLEAN,
     csv : BOOLEAN]

\* main is called and parser.parse_args() runs, line 251: -p has
\* nargs="+", so without a name after it argparse writes its error to
\* stderr and exits with status 2, whatever else is on the command line.
MainParse ==
    /\ cpc = "idle"
    /\ files = [json |-> None, csv |-> None]
    /\ \E args \in Argvs :
           /\ argv' = Some(args)
           /\ IF args.products = <<>>
              THEN /\ stderr' =
                         Append(stderr, "argument -p/--products: "
                                        \o "expected at least one argument")
                   /\ exit_code' = Some(2)
                   /\ cpc' = "exited"
              ELSE /\ cpc' = "parsed"
                   /\ UNCHANGED <<stderr, exit_code>>
    /\ UNCHANGED <<cerr, stdout, exported, files, loaded>>
    /\ UNCHANGED <<runVars, runnerVars, reportVars, benchVars, formatVars>>

\* lines 254-262 with the test of line 254 left out.
MainValidateProductsOnly ==
    /\ cpc = "parsed"
    /\ IF argv[1].products = <<>>
       THEN /\ stderr' = Append(stderr,
                                "Error: at least one product must be specified")
            /\ exit_code' = Some(1)
            /\ cpc' = "exited"
       ELSE /\ cpc' = "orchestrating"
            /\ UNCHANGED <<stderr, exit_code>>
    /\ UNCHANGED <<argv, cerr, stdout, exported, files, loaded>>
    /\ UNCHANGED <<runVars, runnerVars, reportVars, benchVars, formatVars>>

\* lines 254-262: the arguments are validated; with valid ones main goes on
\* into its try block and calls run_benchmark_cli.
MainValidate ==
    /\ cpc = "parsed"
    /\ IF argv[1].iterations <= 0
       THEN /\ stderr' = Append(stderr, "Error: iterations must be positive")
            /\ exit_code' = Some(1)
            /\ cpc' = "exited"
       ELSE IF argv[1].products = <<>>
       THEN /\ stderr' = Append(stderr,
                                "Error: at least one product must be specified")
            /\ exit_code' = Some(1)
            /\ cpc' = "exited"
       ELSE /\ cpc' = "orchestrating"
            /\ UNCHANGED <<stderr, exit_code>>
    /\ UNCHANGED <<argv, cerr, stdout, exported, files, loaded>>
    /\ UNCHANGED <<runVars, runnerVars, reportVars, benchVars, formatVars>>

\* run_benchmark_cli calls measure_products(products, iterations), line
\* 137.
CliMeasure ==
    /\ cpc = "orchestrating"
    /\ mpc = "idle"
    /\ products' = argv[1].products
    /\ mp_iterations' = argv[1].iterations
    /\ mpc' = "for product"
    /\ product' = 0
    /\ times' = <<>>
    /\ measured' = <<>>
    /\ work_calls' = <<>>
    /\ merr' = "none"
    /\ given' = None
    /\ analysis' = <<>>
    /\ aerr' = "none"
    /\ UNCHANGED <<runVars, runnerVars, reportVars, formatVars, cliVars>>

\* measure_products has exited: what it raised leaves run_benchmark_cli
\* too, and what it returned is analysed, line 140.
CliAfterMeasure ==
    /\ cpc = "orchestrating"
    /\ mpc \in {"returned", "raised"}
    /\ IF mpc = "raised"
       THEN /\ cerr' = merr
            /\ cpc' = "raised"
            /\ UNCHANGED <<given, analysis, aerr>>
       ELSE /\ given' = Some(measured)
            /\ analysis' = analyze_results(measured).ret
            /\ aerr' = analyze_results(measured).raised
            /\ cpc' = "saving"
            /\ UNCHANGED cerr
    /\ UNCHANGED <<argv, exit_code, stderr, stdout, exported, files, loaded>>
    /\ UNCHANGED <<products, mp_iterations, mpc, product, times, measured,
                   work_calls, merr>>
    /\ UNCHANGED <<runVars, runnerVars, reportVars, formatVars>>

\* Where the saving of lines 163-185 can fail with an OSError: nowhere, in
\* mkdir, or in the open of a file that was asked for.
SaveFailures(args) ==
    {"none"}
    \cup (IF args.json \/ args.csv THEN {"mkdir"} ELSE {})
    \cup (IF args.json THEN {"json"} ELSE {})
    \cup (IF args.csv THEN {"csv"} ELSE {})

\* lines 163-185: the files that were asked for are written, the JSON file
\* first, until one of the steps fails; then run_benchmark_cli returns or
\* lets the OSError through.
CliSave ==
    /\ cpc = "saving"
    /\ \E failure \in SaveFailures(argv[1]) :
           LET args == argv[1]
               json_done == args.json /\ failure \in {"none", "csv"}
               csv_done == args.csv /\ failure = "none"
               full_data == FullData(args.products, args.iterations,
                                     measured, analysis)
           IN  /\ exported' =
                     [json |-> IF json_done THEN Some(full_data) ELSE None,
                      csv |-> IF csv_done
                              THEN Some([results |-> measured,
                                         analysis |-> Some(analysis)])
                              ELSE None]
               /\ files' =
                     [json |-> IF json_done THEN Some(JsonDump(full_data))
                               ELSE None,
                      csv |-> IF csv_done
                              THEN Some(CsvRows(measured, Some(analysis)))
                              ELSE None]
               /\ cerr' = IF failure = "none" THEN "none" ELSE "OSError"
               /\ cpc' = IF failure = "none" THEN "returned" ELSE "raised"
    /\ UNCHANGED <<argv, exit_code, stderr, stdout, loaded>>
    /\ UNCHANGED <<runVars, runnerVars, reportVars, benchVars, formatVars>>

\* The user presses Ctrl-C while run_benchmark_cli is running:
\* KeyboardInterrupt is raised where the program stands and leaves
\* measure_products, if it is in there, and run_benchmark_cli.
Interrupt ==
    /\ cpc \in {"orchestrating", "saving"}
    /\ cerr' = "KeyboardInterrupt"
    /\ cpc' = "raised"
    /\ IF mpc \in {"for product", "for range"}
       THEN /\ mpc' = "raised"
            /\ merr' = "KeyboardInterrupt"
       ELSE UNCHANGED <<mpc, merr>>
    /\ UNCHANGED <<argv, exit_code, stderr, stdout, exported, files, loaded>>
    /\ UNCHANGED <<products, mp_iterations, product, times, measured,
                   work_calls, given, analysis, aerr>>
    /\ UNCHANGED <<runVars, runnerVars, reportVars, formatVars>>

\* line 282: run_benchmark_cli has returned, main prints its last message
\* and returns.
MainSuccess ==
    /\ cpc = "returned"
    /\ stdout' = Append(stdout, "Benchmark completed successfully!")
    /\ cpc' = "done"
    /\ UNCHANGED <<argv, cerr, exit_code, stderr, exported, files, loaded>>
    /\ UNCHANGED <<runVars, runnerVars, reportVars, benchVars, formatVars>>

\* lines 284-293 with one handler for everything: the message goes to
\* stderr and the status is 1.
MainExceptAllAlike ==
    /\ cpc = "raised"
    /\ stderr' = Append(stderr, "Error during benchmark: " \o cerr)
    /\ exit_code' = Some(1)
    /\ UNCHANGED stdout
    /\ cpc' = "exited"
    /\ UNCHANGED <<argv, cerr, exported, files, loaded>>
    /\ UNCHANGED <<runVars, runnerVars, reportVars, benchVars, formatVars>>

\* lines 284-293: KeyboardInterrupt is told on stdout and ends main with
\* status 130; any other exception is told on stderr and ends it with
\* status 1.
MainExcept ==
    /\ cpc = "raised"
    /\ IF cerr = "KeyboardInterrupt"
       THEN /\ stdout' = Append(stdout, "Benchmark interrupted by user")
            /\ exit_code' = Some(130)
            /\ UNCHANGED stderr
       ELSE /\ stderr' = Append(stderr, "Error during benchmark: " \o cerr)
            /\ exit_code' = Some(1)
            /\ UNCHANGED stdout
    /\ cpc' = "exited"
    /\ UNCHANGED <<argv, cerr, exported, files, loaded>>
    /\ UNCHANGED <<runVars, runnerVars, reportVars, benchVars, formatVars>>

\* Nothing of utils.py has been called.
InitFormat ==
    /\ formatter = "none"
    /\ unformatted = None
    /\ formatted = ""

\* main has not been called and nothing has been written.
InitCli ==
    /\ argv = None
    /\ cpc = "idle"
    /\ cerr = "none"
    /\ exit_code = None
    /\ stderr = <<>>
    /\ stdout = <<>>
    /\ exported = [json |-> None, csv |-> None]
    /\ files = [json |-> None, csv |-> None]
    /\ loaded = None

\* BenchmarkRunner.__init__, lines 14-17.
InitRunner ==
    /\ benchmarks = <<>>
    /\ results = <<>>
    /\ returned = None
    /\ aliased = FALSE
    /\ rpc = "idle"
    /\ i = 0
    /\ started = <<>>
    /\ outcome = "none"
    /\ last = "none"

InitLocals ==
    /\ pc = "idle"
    /\ k = 0
    /\ total_time = 0
    /\ avg_time = None
    /\ memory_usage = None
    /\ cpu_usage = None
    /\ cpu_start = None
    /\ exc = "none"
    /\ context = "none"
    /\ result = None
    /\ tracing = FALSE
    /\ peak = 0
    /\ calls = <<>>
    /\ samples = <<>>
    /\ cpu_samples = <<>>
    /\ prev = None

\* No reporting method has been called.
InitReport ==
    /\ method = "none"
    /\ arg = None
    /\ view = None
    /\ order = <<>>
    /\ before = <<>>

\* Nothing of bench.py has been called.
InitBench ==
    /\ products = <<>>
    /\ mp_iterations = 0
    /\ mpc = "idle"
    /\ product = 0
    /\ times = <<>>
    /\ measured = <<>>
    /\ work_calls = <<>>
    /\ merr = "none"
    /\ given = None
    /\ analysis = <<>>
    /\ aerr = "none"

\* One Benchmark, constructed by the caller, and a runner left alone.
Init ==
    /\ self \in Benchmarks
    /\ InitLocals
    /\ InitRunner
    /\ InitReport
    /\ InitBench
    /\ InitFormat
    /\ InitCli

Next ==
    \/ CallRun
    \/ RunStep

Spec == Init /\ [][Next]_vars

\* A fresh BenchmarkRunner and no Benchmark running.
InitR ==
    /\ self = None
    /\ InitLocals
    /\ InitRunner
    /\ InitReport
    /\ InitBench
    /\ InitFormat
    /\ InitCli

NextR ==
    \/ AddBenchmark
    \/ RunAllBegin
    \/ RunAllCall
    \/ RunStep
    \/ RunAllAppend
    \/ RunAllRaise
    \/ RunAllReturn
    \/ Clear

SpecRunner == InitR /\ [][NextR]_vars

\* A runner that was given any list of results, and its reporting methods.
InitRep ==
    /\ self = None
    /\ InitLocals
    /\ benchmarks = <<>>
    /\ results \in ListsUpTo(ReportResults, MaxResults)
    /\ returned = None
    /\ aliased = FALSE
    /\ rpc = "idle"
    /\ i = 0
    /\ started = <<>>
    /\ outcome = "none"
    /\ last = "none"
    /\ InitReport
    /\ InitBench
    /\ InitFormat
    /\ InitCli

NextRep ==
    \/ GetSlowest
    \/ GetMemoryIntensive
    \/ GenerateReport

SpecReport == InitRep /\ [][NextRep]_vars

\* A caller of bench.py: measure_products and analyze_results.
InitB ==
    /\ self = None
    /\ InitLocals
    /\ InitRunner
    /\ InitReport
    /\ InitBench
    /\ InitFormat
    /\ InitCli

NextB ==
    \/ MeasureProductsCall
    \/ MeasureNextProduct
    \/ MeasureWork
    \/ MeasureAverage
    \/ AnalyzeResults

SpecBench == InitB /\ [][NextB]_vars

\* A caller of utils.py: format_duration and format_memory.
InitF ==
    /\ self = None
    /\ InitLocals
    /\ InitRunner
    /\ InitReport
    /\ InitBench
    /\ InitFormat
    /\ InitCli

NextF ==
    \/ FormatDuration
    \/ FormatMemory

SpecFormat == InitF /\ [][NextF]_vars

\* A caller of cli.py's exports, who saves once and reads the JSON back.
InitE ==
    /\ self = None
    /\ InitLocals
    /\ InitRunner
    /\ InitReport
    /\ InitBench
    /\ InitFormat
    /\ InitCli

NextE ==
    \/ SaveToCsv
    \/ SaveToJson
    \/ LoadJson

SpecExport == InitE /\ [][NextE]_vars

\* One call of main from the command line.
InitM ==
    /\ self = None
    /\ InitLocals
    /\ InitRunner
    /\ InitReport
    /\ InitBench
    /\ InitFormat
    /\ InitCli

NextM ==
    \/ MainParse
    \/ MainValidate
    \/ CliMeasure
    \/ MeasureNextProduct
    \/ MeasureWork
    \/ MeasureAverage
    \/ CliAfterMeasure
    \/ CliSave
    \/ Interrupt
    \/ MainSuccess
    \/ MainExcept

SpecCli == InitM /\ [][NextM]_vars

\* ============================================================ properties
\* How often x occurs in the history s.
Count(s, x) == Cardinality({j \in DOMAIN s : s[j] = x})

\* The positions of x in the history s.
Positions(s, x) == {j \in DOMAIN s : s[j] = x}

\* n times x.
Repeat(x, n) == [j \in 1..n |-> x]

\* run has been left, by a return or by an exception.
Exited == pc \in {"returned", "raised"}

\* The try statement of line 87 has been entered in this call of run.
EnteredTry ==
    \/ pc \in {"loop", "memory", "cpu", "finally", "return", "returned"}
    \/ pc = "raised" /\ exc \notin {"setup", "cpu_percent before try"}

\* ------------------------------------------------------------------ C1
\* C1: once run has entered the try block (setup done, measurements
\* started), teardown, if present, is called exactly once on every way out:
\* after the last iteration, when func raises in any iteration, when the
\* averaging raises ZeroDivisionError and when the CPU capture raises; it is
\* never called twice, and never when there is no teardown.
TeardownExactlyOnce ==
    pc # "idle" =>
        /\ Count(calls, "teardown") <= 1
        /\ (Exited /\ EnteredTry) =>
               Count(calls, "teardown") = (IF self.teardown THEN 1 ELSE 0)

\* C1 witness: a run whose averaging failed (iterations = 0) has left with
\* the ZeroDivisionError after calling teardown.
TeardownAfterFailedAverage ==
    /\ pc = "raised"
    /\ exc = "ZeroDivisionError"
    /\ self.teardown
    /\ Count(calls, "teardown") = 1

\* ------------------------------------------------------------------ C2
\* func has raised in this call of run.
WorkloadRaised == exc = "func" \/ context = "func"

\* C2 as claimed: once func has raised, no further iteration runs, teardown
\* runs before run is left, no result is returned, and the exception that
\* leaves run is the one func raised.
WorkloadExceptionPropagatesUnchanged ==
    WorkloadRaised =>
        /\ pc \in {"finally", "raised"}
        /\ result = None
        /\ Count(calls, "func") = k
        /\ Len(samples) = k - 1
        /\ pc = "raised" =>
               /\ self.teardown => calls[Len(calls)] = "teardown"
               /\ exc = "func"

\* C2 amended: as above, but the exception that leaves run is func's own
\* only if teardown did not raise; if teardown raised, it is teardown's
\* exception (with func's as its context).
WorkloadExceptionPropagates ==
    WorkloadRaised =>
        /\ pc \in {"finally", "raised"}
        /\ result = None
        /\ Count(calls, "func") = k
        /\ Len(samples) = k - 1
        /\ pc = "raised" =>
               /\ self.teardown => calls[Len(calls)] = "teardown"
               /\ exc \in {"func", "teardown"}
               /\ exc = "teardown" => (self.teardown /\ context = "func")

\* C2 witness: func raised in the second iteration, teardown ran, and the
\* exception of func has left run.
WorkloadRaisedInSecondIteration ==
    /\ pc = "raised"
    /\ exc = "func"
    /\ k = 2
    /\ self.teardown
    /\ calls[Len(calls)] = "teardown"

\* ------------------------------------------------------------------ C3
\* C3 as claimed: a run that returns a result has called setup (if present)
\* once, then func exactly self.iterations times in a row, then teardown (if
\* present), and the result carries the configured iteration count.
ReturnedRunCallSequence ==
    pc = "returned" =>
        /\ Count(calls, "func") = self.iterations
        /\ HookCalls = (IF self.setup THEN <<"setup">> ELSE <<>>)
                       \o Repeat("func", self.iterations)
                       \o (IF self.teardown THEN <<"teardown">> ELSE <<>>)
        /\ result[1].iterations = self.iterations

\* ------------------------------------------------------------------ C6
\* C6: the execution_time of a returned result is the sum of the elapsed
\* times of all iterations, one per call of func, divided by the configured
\* iteration count.
ExecutionTimeIsMean ==
    pc = "returned" =>
        /\ Len(samples) = Count(calls, "func")
        /\ result[1].execution_time = Div(SumSeq(samples), self.iterations)

\* C6 witness: two iterations with different elapsed times, whose mean 1/2
\* is neither of them.
MeanOfTwoDifferentSamples ==
    /\ pc = "returned"
    /\ Len(samples) = 2
    /\ samples[1] # samples[2]
    /\ result[1].execution_time = <<1, 2>>

\* ------------------------------------------------------------------ C7
\* C7 as claimed: no returned result has an iterations field below 1.
ResultIterationsAtLeastOne ==
    pc = "returned" => result[1].iterations >= 1

\* ------------------------------------------------------------------ C8
\* C8: a returned result has no memory_usage exactly when measure_memory is
\* off; when it is on, memory_usage is the peak as it stood after the last
\* iteration, read by get_traced_memory after the last call of func, and
\* tracing is stopped right after that read and before teardown.
MemoryUsageIsPeakReadAfterLoop ==
    pc = "returned" =>
        /\ (result[1].memory_usage = None) <=> ~self.measure_memory
        /\ self.measure_memory =>
               /\ result[1].memory_usage = Some(peak)
               /\ ~tracing
               /\ \E r \in DOMAIN calls :
                     /\ Positions(calls, "get_traced_memory") = {r}
                     /\ Positions(calls, "tracemalloc.stop") = {r + 1}
                     /\ \A f \in Positions(calls, "func") : f < r
                     /\ \A t \in Positions(calls, "teardown") : r + 1 < t

\* C8 witness: a measured run of two iterations with teardown returned a
\* non-zero peak.
MemoryMeasuredRunReturned ==
    /\ pc = "returned"
    /\ self.measure_memory
    /\ self.teardown
    /\ self.iterations = 2
    /\ result[1].memory_usage = Some(1)

\* ------------------------------------------------------------------ C9
\* C9: a returned result has no cpu_usage exactly when measure_cpu is off;
\* when it is on, cpu_usage is the sample taken after the last iteration
\* minus the sample taken before the first, negative when the second sample
\* is the smaller one.
CpuUsageIsUnclampedDelta ==
    pc = "returned" =>
        /\ (result[1].cpu_usage = None) <=> ~self.measure_cpu
        /\ self.measure_cpu =>
               /\ Len(cpu_samples) = 2
               /\ result[1].cpu_usage = Some(cpu_samples[2] - cpu_samples[1])
               /\ \E b, e \in DOMAIN calls :
                     /\ Positions(calls, "cpu_percent") = {b, e}
                     /\ b < e
                     /\ \A f \in Positions(calls, "func") : b < f /\ f < e

\* C9 witness: the second sample was below the first and the result reports
\* the negative difference.
NegativeCpuUsageReturned ==
    /\ pc = "returned"
    /\ self.measure_cpu
    /\ cpu_samples = <<1, 0>>
    /\ result[1].cpu_usage = Some(-1)

\* ------------------------------------------------------------------ C4
\* run_all has returned and no runner method was called since.
RunAllReturned == last = "run_all" /\ outcome = "returned"

\* run_all was left by an exception and no runner method was called since.
RunAllRaised == last = "run_all" /\ outcome = "raised"

\* 1, 2, ..., n
Upto(n) == [j \in 1..n |-> j]

\* C4: run_all starts the registered benchmarks in registration order, one
\* at a time (a benchmark is started only when all before it have delivered
\* their result), and when it returns, runner.results, which is the list it
\* returns, has one result per registered benchmark, results[j] carrying the
\* name of benchmarks[j].
RunAllInRegistrationOrder ==
    /\ (rpc = "loop" \/ RunAllReturned) => started = Upto(Len(started))
    /\ (rpc = "loop" /\ pc # "idle") =>
           /\ self = benchmarks[started[Len(started)]]
           /\ Len(results) = Len(started) - 1
    /\ RunAllReturned =>
           /\ started = Upto(Len(benchmarks))
           /\ Len(results) = Len(benchmarks)
           /\ \A j \in DOMAIN results : results[j].name = benchmarks[j].name
           /\ LastReturned = Some(results)

\* C4 witness: run_all has returned the results of two benchmarks with
\* different names.
RunAllReturnedTwoResults ==
    /\ RunAllReturned
    /\ Len(results) = 2
    /\ results[1].name # results[2].name

\* ------------------------------------------------------------------ C5
\* C5: when the run of benchmark number i raises, run_all is left with that
\* exception, and no benchmark after i is started: at any time during
\* run_all at most one started benchmark, the last, has no result, and after
\* the exception the benchmarks started are exactly 1..i.
RunAllStopsAtFirstFailure ==
    /\ (rpc = "loop" \/ RunAllRaised) =>
           /\ started = Upto(Len(started))
           /\ Len(started) - Len(results) \in {0, 1}
    /\ RunAllRaised =>
           /\ rpc = "idle"
           /\ i <= Len(benchmarks)
           /\ started = Upto(i)
           /\ Len(results) = i - 1

\* C5 witness: run_all was left by the exception of the first of two
\* benchmarks; the second was never started.
RunAllAbortedBeforeLast ==
    /\ RunAllRaised
    /\ i = 1
    /\ Len(benchmarks) = 2
    /\ started = <<1>>

\* ----------------------------------------------------------------- C10
\* C10 as claimed: after clear both lists are empty, and the list run_all
\* returned last, if it returned one, is empty too.
ClearEmptiesReturnedList ==
    last = "clear" =>
        /\ benchmarks = <<>>
        /\ results = <<>>
        /\ LastReturned # None => LastReturned = Some(<<>>)

\* C10 amended: after clear both lists are empty, and the list run_all
\* returned last is empty too if the most recent call of run_all returned
\* (if it was aborted by an exception, runner.results is by then another
\* list, and the one returned earlier keeps its contents).
ClearEmptiesListsInPlace ==
    last = "clear" =>
        /\ benchmarks = <<>>
        /\ results = <<>>
        /\ outcome = "returned" => LastReturned = Some(<<>>)

\* C10 witness: clear was called after a run_all that ran a benchmark and
\* returned.
ClearedAfterReturnedRunAll ==
    /\ last = "clear"
    /\ outcome = "returned"
    /\ started # <<>>
    /\ LastReturned = Some(<<>>)

\* =================================================== properties: reports
\* The indices of a list of indices.
IndicesOf(indices) == {indices[j] : j \in DOMAIN indices}

\* The execution_time of the result that stood at index x when the
\* reporting method was called.
TimeAt(x) == before[x].execution_time

\* C11: get_slowest(n) with n >= 0 returns min(n, number of results)
\* results, those with the largest execution_time, in descending order of
\* execution_time with equal times in their original relative order, and
\* leaves runner.results as it was.
SlowestAreTheLargestDescending ==
    (method = "get_slowest" /\ arg >= 0) =>
        /\ results = before
        /\ Len(view) = (IF arg < Len(before) THEN arg ELSE Len(before))
        /\ IndicesOf(order) \subseteq DOMAIN before
        /\ view = Pick(before, order)
        /\ \A j \in DOMAIN order : \A m \in DOMAIN order :
               j < m =>
                   \/ Less(TimeAt(order[m]), TimeAt(order[j]))
                   \/ TimeAt(order[m]) = TimeAt(order[j])
                        /\ order[j] < order[m]
        /\ \A j \in DOMAIN order : \A x \in DOMAIN before \ IndicesOf(order) :
               \/ Less(TimeAt(x), TimeAt(order[j]))
               \/ TimeAt(x) = TimeAt(order[j]) /\ order[j] < x

\* C11 witness: two different results with the same execution_time were
\* asked for and came back in the order in which they were stored.
SlowestKeptOrderOfEqualTimes ==
    /\ method = "get_slowest"
    /\ arg = 2
    /\ Len(before) = 2
    /\ before[1] # before[2]
    /\ TimeAt(1) = TimeAt(2)
    /\ view = before

\* The memory_usage (a number, never None where this is used) of the result
\* that stood at index x when the reporting method was called.
MemoryAt(x) == before[x].memory_usage[1]

\* C12: get_memory_intensive(n) with n >= 0 never returns a result whose
\* memory_usage is absent; it returns at most n of the other results, in
\* descending order of memory_usage with equal values in their original
\* relative order, and leaves runner.results as it was.
MemoryIntensiveSkipsAbsentDescending ==
    (method = "get_memory_intensive" /\ arg >= 0) =>
        /\ results = before
        /\ Len(view) <= arg
        /\ IndicesOf(order) \subseteq DOMAIN before
        /\ view = Pick(before, order)
        /\ \A j \in DOMAIN view : view[j].memory_usage # None
        /\ \A j \in DOMAIN order : \A m \in DOMAIN order :
               j < m =>
                   \/ MemoryAt(order[m]) < MemoryAt(order[j])
                   \/ MemoryAt(order[m]) = MemoryAt(order[j])
                        /\ order[j] < order[m]

\* C12 witness: two results were asked for and one was returned: the first
\* of the two stored results has no memory measurement and was left out.
MemoryIntensiveLeftOutUnmeasured ==
    /\ method = "get_memory_intensive"
    /\ arg = 2
    /\ Len(before) = 2
    /\ before[1].memory_usage = None
    /\ before[2].memory_usage = Some(1)
    /\ order = <<2>>

\* memory_usage of the result that stood at index x, an absent one as 0.
MemoryOrZeroAt(x) ==
    IF before[x].memory_usage = None THEN 0 ELSE before[x].memory_usage[1]

\* generate_report was called for a runner that has results.
Reported == method = "generate_report" /\ before # <<>>

UnknownSortKeyKeepsInsertionOrder ==
    (Reported /\ arg \notin {"execution_time", "memory_usage", "name"}) =>
        /\ order = [j \in DOMAIN before |-> j]
        /\ view = [j \in DOMAIN before |-> Row(before[j])]

\* C15: the Memory cell of a row is "N/A" exactly when the result's
\* memory_usage is absent, and the CPU cell is "N/A" exactly when its
\* cpu_usage is absent: a present value, 0 included, is shown as a number.
NotAvailableExactlyWhenAbsent ==
    Reported =>
        \A j \in DOMAIN view :
            /\ view[j][3] = "N/A" <=> before[order[j]].memory_usage = None
            /\ view[j][4] = "N/A" <=> before[order[j]].cpu_usage = None

\* ================================================== properties: bench.py
\* The elements of a list.
ElementsOf(list) == {list[j] : j \in DOMAIN list}

\* C16: for iterations K >= 1 measure_products raises nothing, runs the
\* timed workload exactly K times for every entry of the product list, and
\* returns a mapping whose keys are the distinct product names, each once
\* (duplicates of a name give a single entry), with values that are >= 0.
MeasureProductsKTimesPerEntry ==
    mp_iterations >= 1 =>
        /\ mpc # "raised"
        /\ mpc = "returned" =>
              /\ \A j \in DOMAIN products :
                     Count(work_calls, j) = mp_iterations
              /\ Len(work_calls) = mp_iterations * Len(products)
              /\ ElementsOf(Keys(measured)) = ElementsOf(products)
              /\ Len(measured) = Cardinality(ElementsOf(products))
              /\ \A j \in DOMAIN measured : ~Less(measured[j][2], <<0, 1>>)

\* C16 witness: the same product twice, two iterations: four timed calls
\* and one entry.
MeasuredDuplicateProduct ==
    /\ mpc = "returned"
    /\ mp_iterations = 2
    /\ products = <<"a", "a">>
    /\ Len(work_calls) = 4
    /\ Len(measured) = 1

\* measure_products has been left, by a return or by an exception.
MeasureExited == mpc \in {"returned", "raised"}

\* C17: measure_products with iterations = 0 and a non-empty product list
\* raises an error and returns no mapping; with an empty product list it
\* returns the empty mapping and raises nothing, whatever the iteration
\* count.
ZeroIterationsRaiseEmptyListReturns ==
    /\ (mp_iterations = 0 /\ products # <<>>) =>
          /\ mpc # "returned"
          /\ MeasureExited => merr = "StatisticsError"
    /\ (MeasureExited /\ products = <<>>) =>
          /\ mpc = "returned"
          /\ merr = "none"
          /\ measured = <<>>

\* C17 witness: zero iterations of a non-empty product list ended in an
\* exception, without a timed call.
ZeroIterationsRaised ==
    /\ mpc = "raised"
    /\ mp_iterations = 0
    /\ products # <<>>
    /\ work_calls = <<>>

\* analyze_results has returned the analysis of a non-empty mapping.
Analyzed == given # None /\ given[1] # <<>> /\ aerr = "none"

\* The first key of the given mapping whose value is t.
FirstKeyWith(t) ==
    LET dict == given[1]
        first == CHOOSE j \in DOMAIN dict :
                     dict[j][2] = t /\ \A m \in 1..(j - 1) : dict[m][2] # t
    IN  dict[first][1]

\* C18: for a non-empty mapping analyze_results returns fastest_time <=
\* every value <= slowest_time, fastest_product and slowest_product are
\* keys that hold these values, of several such keys the first in the
\* mapping's iteration order, and total_products is the number of entries.
AnalysisNamesFirstFastestAndSlowest ==
    Analyzed =>
        /\ \A j \in DOMAIN given[1] :
               /\ ~Less(given[1][j][2], analysis.fastest_time)
               /\ ~Less(analysis.slowest_time, given[1][j][2])
        /\ \E j \in DOMAIN given[1] : given[1][j][2] = analysis.fastest_time
        /\ \E j \in DOMAIN given[1] : given[1][j][2] = analysis.slowest_time
        /\ analysis.fastest_product = FirstKeyWith(analysis.fastest_time)
        /\ analysis.slowest_product = FirstKeyWith(analysis.slowest_time)
        /\ analysis.total_products = Len(given[1])

\* C18 witness: two products with the same time: the first of them is both
\* the fastest and the slowest.
AnalyzedTwoEqualTimes ==
    /\ Analyzed
    /\ Len(given[1]) = 2
    /\ given[1][1][2] = given[1][2][2]
    /\ analysis.fastest_product = given[1][1][1]
    /\ analysis.slowest_product = given[1][1][1]

\* C19: for a non-empty mapping of non-negative times performance_ratio is
\* slowest_time / fastest_time when fastest_time > 0, and then >= 1, and it
\* is +infinity when fastest_time = 0, also when slowest_time is 0 too.
RatioIsQuotientOrInfinity ==
    (Analyzed /\ \A j \in DOMAIN given[1] : ~Less(given[1][j][2], <<0, 1>>)) =>
        LET ratio == analysis.performance_ratio
            fastest == analysis.fastest_time
            slowest == analysis.slowest_time
        IN  IF Less(<<0, 1>>, fastest)
            THEN /\ ratio[2] > 0
                 /\ ratio[1] * fastest[1] * slowest[2]
                        = slowest[1] * fastest[2] * ratio[2]
                 /\ ~Less(ratio, <<1, 1>>)
            ELSE ratio = Inf

\* C19 witness: all times are 0 and the ratio is +infinity.
RatioOfZeroTimesIsInfinity ==
    /\ Analyzed
    /\ analysis.fastest_time = <<0, 1>>
    /\ analysis.slowest_time = <<0, 1>>
    /\ analysis.performance_ratio = Inf

\* C20: analyze_results of the empty mapping returns an empty result and
\* raises nothing.
EmptyMappingGivesEmptyAnalysis ==
    (given # None /\ given[1] = <<>>) =>
        /\ aerr = "none"
        /\ DOMAIN analysis = {}

\* C20 witness: analyze_results was called with the empty mapping that
\* measure_products returned for no products.
AnalyzedEmptyMeasurement ==
    /\ given = Some(<<>>)
    /\ mpc = "returned"
    /\ products = <<>>
    /\ aerr = "none"

\* ------------------------------------------------------------------ C27
\* C27: whenever run of a Benchmark with measure_memory has been left, by a
\* return or by an exception, memory tracing is no longer active.
TracingStoppedWhenRunExited ==
    (Exited /\ self.measure_memory) => ~tracing

\* ------------------------------------------------------------------ C30
\* C30: if setup raises, that exception leaves run, func and teardown are
\* never called, and neither memory tracing nor the CPU measurement is
\* started: setup is the only call that run has made.
SetupFailureEndsRunAtOnce ==
    (pc = "raised" /\ exc = "setup") =>
        /\ calls = <<"setup">>
        /\ context = "none"
        /\ result = None
        /\ cpu_start = None
        /\ cpu_samples = <<>>

\* C30 witness: the setup of a Benchmark that has a teardown and measures
\* memory and CPU has raised.
SetupRaisedWithEverythingEnabled ==
    /\ pc = "raised"
    /\ exc = "setup"
    /\ self.teardown
    /\ self.measure_memory
    /\ self.measure_cpu
    /\ self.iterations >= 1

\* ------------------------------------------------------------------ C28
\* C28: run_all drops the results of earlier runs when it starts.  After a
\* run_all that returned, runner.results holds one result per registered
\* benchmark; after a run_all that an exception ended at benchmark number
\* i, it holds the results of the benchmarks 1..i-1 of that run and nothing
\* else.
RunAllKeepsOnlyItsOwnResults ==
    /\ RunAllReturned =>
           /\ Len(results) = Len(benchmarks)
           /\ \A j \in DOMAIN results :
                  /\ results[j].name = benchmarks[j].name
                  /\ results[j].iterations = benchmarks[j].iterations
    /\ RunAllRaised =>
           /\ i <= Len(benchmarks)
           /\ Len(results) = i - 1
           /\ \A j \in DOMAIN results :
                  /\ results[j].name = benchmarks[j].name
                  /\ results[j].iterations = benchmarks[j].iterations

\* C28 witness: an earlier run_all had returned two results; the next one
\* was ended by the exception of the second benchmark, and runner.results
\* holds the one result of this run.
AbortedRunAllAfterCompleteOne ==
    /\ RunAllRaised
    /\ returned # None
    /\ Len(returned[1]) = 2
    /\ i = 2
    /\ Len(results) = 1

\* ------------------------------------------------------------------ C29
\* C29: run leaves the configuration of its Benchmark as it was, so a call
\* of run that follows one that returned finds the same Benchmark, and when
\* it returns too it has made the same calls of setup, func and teardown
\* (func self.iterations times for a count of at least 1) and its result
\* has the same name and the same iterations.
RepeatedRunDoesTheSame ==
    prev # None =>
        /\ self = prev[1].self
        /\ pc = "returned" =>
              /\ HookCalls = prev[1].calls
              /\ self.iterations >= 1 =>
                     Count(calls, "func") = self.iterations
              /\ result[1].name = prev[1].name
              /\ result[1].iterations = prev[1].iterations

\* C29 witness: a Benchmark with setup, teardown and two iterations has
\* returned from run for the second time.
SecondRunReturned ==
    /\ prev # None
    /\ pc = "returned"
    /\ self.setup
    /\ self.teardown
    /\ self.iterations = 2
    /\ Len(HookCalls) = 4

\* seconds * factor with two decimals and the unit's suffix.
DurationText(seconds, factor, unit) ==
    LET x == Scaled(seconds, factor)
    IN  FixedPoint(x[1], x[2], 2) \o unit

\* C25: format_duration chooses the unit by limits that belong to the
\* larger unit: below 1 microsecond the text is in ns, from exactly
\* 1 microsecond and below 1 millisecond in us, from exactly 1 millisecond
\* and below 1 second in ms, from exactly 1 second and below 60 seconds in
\* s, and from exactly 60 seconds it is "Xm Y.YYs" with X the whole minutes
\* and Y the rest, which is at least 0 and below 60 seconds.
DurationUnitHasStrictUpperBound ==
    formatter = "format_duration" =>
        LET seconds == unformatted[1]
            n == seconds[1]
            d == seconds[2]
            sub_us == BelowInverse(n, d, 1000000)
            sub_ms == BelowInverse(n, d, 1000)
            sub_s == Below(n, d, 1)
            sub_min == Below(n, d, 60)
        IN  /\ sub_us => formatted = DurationText(seconds, 1000000000, " ns")
            /\ ~sub_us /\ sub_ms =>
                   formatted = DurationText(seconds, 1000000, " us")
            /\ ~sub_ms /\ sub_s =>
                   formatted = DurationText(seconds, 1000, " ms")
            /\ ~sub_s /\ sub_min => formatted = DurationText(seconds, 1, " s")
            /\ ~sub_min =>
                   \E X \in 1..(n \div d) :
                       LET rest == n - X * 60 * d
                       IN  /\ 0 <= rest
                           /\ Below(rest, d, 60)
                           /\ formatted = ToString(X) \o "m "
                                          \o FixedPoint(rest, d, 2) \o "s"
            /\ seconds = <<1, 1000000>> => formatted = "1.00 us"
            /\ seconds = <<1, 1000>> => formatted = "1.00 ms"
            /\ seconds = <<1, 1>> => formatted = "1.00 s"
            /\ seconds = <<60, 1>> => formatted = "1m 0.00s"
            /\ seconds = <<999, 1000000000>> => formatted = "999.00 ns"

\* Exactly one millisecond was formatted, in milliseconds.
OneMillisecondFormatted ==
    /\ formatter = "format_duration"
    /\ unformatted = Some(<<1, 1000>>)
    /\ formatted = "1.00 ms"

\* C26: format_memory gives "N/A" for None, the plain count with " B" for
\* 0..1023, and two decimals of the count divided by 1024, 1024^2 and
\* 1024^3 with " KB" for 1024..1024^2-1, " MB" for 1024^2..1024^3-1 and
\* " GB" from 1024^3; exactly 1024 bytes are "1.00 KB".
MemoryUnitIsBinary ==
    formatter = "format_memory" =>
        LET bytes_used == unformatted[1]
            b == bytes_used[1]
        IN  /\ bytes_used = None => formatted = "N/A"
            /\ bytes_used # None =>
                   /\ b \in 0..1023 => formatted = ToString(b) \o " B"
                   /\ b \in 1024..(1024 * 1024 - 1) =>
                          formatted = FixedPoint(b, 1024, 2) \o " KB"
                   /\ b >= 1024 * 1024 /\ b <= 1024 * 1024 * 1024 - 1 =>
                          formatted = FixedPoint(b, 1024 * 1024, 2) \o " MB"
                   /\ b >= 1024 * 1024 * 1024 =>
                          formatted =
                              FixedPoint(b, 1024 * 1024 * 1024, 2) \o " GB"
                   /\ b = 1023 => formatted = "1023 B"
                   /\ b = 1024 => formatted = "1.00 KB"
                   /\ b = 1024 * 1024 => formatted = "1.00 MB"
                   /\ b = 1024 * 1024 * 1024 => formatted = "1.00 GB"

\* Exactly 1024 bytes were formatted, as one KB.
OneKilobyteFormatted ==
    /\ formatter = "format_memory"
    /\ unformatted = Some(Some(1024))
    /\ formatted = "1.00 KB"

\* The product rows of the CSV file and the results they were made from.
CsvProductRowsInOrder(rows, dict) ==
    LET n == Len(dict)
        keys == Keys(dict)
    IN  /\ Len(rows) >= 1 + n
        /\ rows[1] = CsvHeader
        /\ \A j \in 1..n : rows[1 + j][3] = j
        /\ \A m \in 1..n :
               Cardinality({j \in 1..n : /\ rows[1 + j][1] = dict[m][1]
                                         /\ rows[1 + j][2] = dict[m][2]}) = 1
        /\ \A j \in 1..n : \A j2 \in 1..n :
               j < j2 =>
                   /\ ~Less(rows[1 + j2][2], rows[1 + j][2])
                   /\ rows[1 + j][2] = rows[1 + j2][2] =>
                          IndexOf(keys, rows[1 + j][1])
                              < IndexOf(keys, rows[1 + j2][1])

\* The eight rows that follow the product rows when there is an analysis.
CsvAnalysisBlock(rows, n, a) ==
    /\ Len(rows) = 1 + n + 8
    /\ rows[n + 2] = <<>>
    /\ rows[n + 3] = <<"Analysis", "Value">>
    /\ Len(rows[n + 4]) = 2 /\ rows[n + 4][1] = "Fastest_Product"
    /\ rows[n + 4][2] = a.fastest_product
    /\ Len(rows[n + 5]) = 2 /\ rows[n + 5][1] = "Fastest_Time"
    /\ rows[n + 5][2] = a.fastest_time
    /\ Len(rows[n + 6]) = 2 /\ rows[n + 6][1] = "Slowest_Product"
    /\ rows[n + 6][2] = a.slowest_product
    /\ Len(rows[n + 7]) = 2 /\ rows[n + 7][1] = "Slowest_Time"
    /\ rows[n + 7][2] = a.slowest_time
    /\ Len(rows[n + 8]) = 2 /\ rows[n + 8][1] = "Performance_Ratio"
    /\ rows[n + 8][2] = a.performance_ratio
    /\ Len(rows[n + 9]) = 2 /\ rows[n + 9][1] = "Average_Time"
    /\ rows[n + 9][2] = a.average_time

\* C21 as stated: the CSV file has the header, the products by ascending
\* time with the ranks 1..n in row order (equal times in mapping order),
\* and whenever an analysis was supplied the blank row, the 'Analysis,
\* Value' header and six analysis rows, 1 + n + 8 rows in all, otherwise
\* 1 + n rows.
CsvHasBlockIfAnalysisSupplied ==
    files.csv # None =>
        LET rows == files.csv[1]
            dict == exported.csv[1].results
            opt == exported.csv[1].analysis
        IN  /\ CsvProductRowsInOrder(rows, dict)
            /\ IF opt # None
               THEN Len(rows) = 1 + Len(dict) + 8
               ELSE Len(rows) = 1 + Len(dict)

\* C21, amended: the same rows, with the analysis block exactly when the
\* analysis supplied is not empty; with no analysis or an empty one the
\* file ends after the product rows.
CsvHasBlockIfAnalysisNotEmpty ==
    files.csv # None =>
        LET rows == files.csv[1]
            dict == exported.csv[1].results
            opt == exported.csv[1].analysis
        IN  /\ CsvProductRowsInOrder(rows, dict)
            /\ IF opt # None /\ DOMAIN opt[1] # {}
               THEN CsvAnalysisBlock(rows, Len(dict), opt[1])
               ELSE Len(rows) = 1 + Len(dict)

\* Two products with equal times were saved, the second of the mapping
\* being the one that sorts first by name, together with their analysis.
CsvOfTiedProductsWithAnalysis ==
    /\ files.csv # None
    /\ Len(exported.csv[1].results) = 2
    /\ exported.csv[1].results[1][1] = "b"
    /\ exported.csv[1].results[1][2] = exported.csv[1].results[2][2]
    /\ exported.csv[1].analysis # None
    /\ DOMAIN exported.csv[1].analysis[1] # {}
    /\ Len(files.csv[1]) = 11
    /\ files.csv[1][2][1] = "b"

\* An infinite float where data has one replaced by the string that str
\* makes of it.
RECURSIVE InfinityAsString(_)
InfinityAsString(v) ==
    CASE v.type = "dict" ->
             PyDict([j \in DOMAIN v.value |->
                        <<v.value[j][1], InfinityAsString(v.value[j][2])>>])
      [] v.type = "float" -> IF v.value = Inf THEN PyStr("inf") ELSE v
      [] OTHER -> v

\* C22 as stated: what json.load reads from the file that save_to_json
\* wrote equals the data that was saved, except that an infinite
\* performance_ratio has become the string "inf".
JsonRoundTripWithInfinityAsString ==
    loaded # None => loaded[1] = InfinityAsString(exported.json[1])

\* measure_products was not called and no product_work ran.
NothingMeasured == mpc = "idle" /\ work_calls = <<>>

\* C23 as stated: main never measures anything once the iteration count is
\* not positive or the product flag is empty; it ends with status 1 and a
\* message on stderr in the first case and with status 2 in the second.
ConfigurationErrorsHaveOwnStatus ==
    argv # None =>
        /\ argv[1].iterations <= 0 =>
               /\ cpc \in {"parsed", "exited"}
               /\ NothingMeasured
               /\ cpc = "exited" => exit_code = Some(1) /\ stderr # <<>>
        /\ argv[1].products = <<>> =>
               /\ cpc = "exited"
               /\ NothingMeasured
               /\ exit_code = Some(2)

\* C23, amended: an empty product flag ends main while the arguments are
\* parsed, with status 2 and argparse's message on stderr, whatever the
\* iteration count is; with products given and an iteration count that is
\* not positive main ends with status 1 and its own message on stderr.
\* Nothing is measured in either case.
ConfigurationErrorsParsingFirst ==
    argv # None =>
        /\ argv[1].products = <<>> =>
               /\ cpc = "exited"
               /\ NothingMeasured
               /\ exit_code = Some(2)
               /\ Len(stderr) = 1
        /\ argv[1].products # <<>> /\ argv[1].iterations <= 0 =>
               /\ cpc \in {"parsed", "exited"}
               /\ NothingMeasured
               /\ cpc = "exited" =>
                      /\ exit_code = Some(1)
                      /\ stderr = <<"Error: iterations must be positive">>

\* main was given products and zero iterations and has ended with 1.
ZeroIterationsRejected ==
    /\ argv # None
    /\ argv[1].products # <<>>
    /\ argv[1].iterations = 0
    /\ cpc = "exited"
    /\ exit_code = Some(1)

\* C24: when run_benchmark_cli was left by KeyboardInterrupt main ends
\* with status 130; when it was left by another exception main ends with
\* status 1 and the exception's message is on stderr; the success message
\* is on stdout only after run_benchmark_cli returned: the measurement
\* returned, the analysis was made, nothing was raised, and main ends
\* without an exit status.
OrchestrationOutcomeDecidesStatus ==
    /\ cpc = "exited" /\ cerr = "KeyboardInterrupt" =>
           exit_code = Some(130)
    /\ cpc = "exited" /\ cerr \notin {"none", "KeyboardInterrupt"} =>
           /\ exit_code = Some(1)
           /\ stderr = <<"Error during benchmark: " \o cerr>>
    /\ (\E j \in DOMAIN stdout :
            stdout[j] = "Benchmark completed successfully!") =>
           /\ cpc = "done"
           /\ cerr = "none"
           /\ mpc = "returned"
           /\ given = Some(measured)
           /\ exit_code = None
    /\ cpc = "done" => stdout = <<"Benchmark completed successfully!">>

\* Ctrl-C came after some product_work had run, and main has ended.
InterruptedWhileMeasuring ==
    /\ cpc = "exited"
    /\ cerr = "KeyboardInterrupt"
    /\ merr = "KeyboardInterrupt"
    /\ work_calls # <<>>
    /\ exit_code = Some(130)

====
